---------------------------- MODULE Spec2Model ----------------------------
(***************************************************************************)
(* A model of the secp256k1 library: the Montgomery field Element          *)
(* (src/element.go and the word-level kernels), the projective Point with  *)
(* its complete addition formulas, its SEC1 encoders and decoder and its   *)
(* windowed scalar multiplications.                                        *)
(*                                                                         *)
(* The curve is y^2 = x^3 + 7 over a prime field, as in the source, with   *)
(* the widths scaled so that the values can be enumerated: a machine word  *)
(* has LimbBits bits instead of 64, an Element still has four limbs, and   *)
(* an encoded field element is ElementLength = 1 byte instead of 32.  The  *)
(* prime is 163 (= 3 mod 4 and = 1 mod 3, like 2^256 - 2^32 - 977), the    *)
(* curve then has the prime order 139 < p.  Bytes keep their 8 bits and    *)
(* scalar windows their 4 bits, so a window table still has 15 entries.    *)
(***************************************************************************)
EXTENDS Integers, Sequences, FiniteSets, TLC

\* ------------------------------------------------------------------------
\* Machine words (math/bits), a word being LimbBits wide.
\* ------------------------------------------------------------------------

LimbBits == 2

\* 2^LimbBits: the number of values of a word.
WordMod == 2 ^ LimbBits

\* The largest word, 0xffffffffffffffff in the source.
WordMax == WordMod - 1

\* bits.Add64: sum and carry-out of x + y + carry.
Add64(x, y, carry) ==
    << (x + y + carry) % WordMod, (x + y + carry) \div WordMod >>

\* bits.Sub64: difference and borrow-out of x - y - borrow.
Sub64(x, y, borrow) ==
    << (x - y - borrow + 2 * WordMod) % WordMod,
       IF x - y - borrow < 0 THEN 1 ELSE 0 >>

\* bits.Mul64: the product's high and low words.
Mul64(x, y) ==
    << (x * y) \div WordMod, (x * y) % WordMod >>

\* Bit i of x.
Bit(x, i) == (x \div (2 ^ i)) % 2

\* x & y on bytes (and so on words).
BitAnd(x, y) ==
    Bit(x, 0) * Bit(y, 0) + 2 * Bit(x, 1) * Bit(y, 1)
    + 4 * Bit(x, 2) * Bit(y, 2) + 8 * Bit(x, 3) * Bit(y, 3)
    + 16 * Bit(x, 4) * Bit(y, 4) + 32 * Bit(x, 5) * Bit(y, 5)
    + 64 * Bit(x, 6) * Bit(y, 6) + 128 * Bit(x, 7) * Bit(y, 7)

\* x | y on bytes.
BitOr(x, y) == x + y - BitAnd(x, y)

\* x ^ y on bytes.
BitXor(x, y) == x + y - 2 * BitAnd(x, y)

\* x & y on words, one term per bit of a word.
WordAnd(x, y) ==
    (x % 2) * (y % 2) + 2 * ((x \div 2) % 2) * ((y \div 2) % 2)

\* x | y on words.
WordOr(x, y) == x + y - WordAnd(x, y)

\* ^x on a word.
WordNot(x) == WordMax - x

\* cmovznz: arg2 when arg1 = 0, arg3 otherwise; arg1 * 0xff..ff wraps to a word.
cmovznz(arg1, arg2, arg3) ==
    LET x1 == (arg1 * WordMax) % WordMod
        keep3 == WordAnd(x1, arg3)
        keep2 == WordAnd(WordNot(x1), arg2)
    IN  WordOr(keep3, keep2)

\* The values of a word.
Word == 0 .. WordMax

\* Add64, Sub64 and Mul64 tabulated over words, for evaluation speed.
Add64Table ==
    [v \in Word |-> [w \in Word |-> [c \in 0 .. 1 |-> Add64(v, w, c)]]]

Sub64Table ==
    [v \in Word |-> [w \in Word |-> [c \in 0 .. 1 |-> Sub64(v, w, c)]]]

Mul64Table == [v \in Word |-> [w \in Word |-> Mul64(v, w)]]

Adc(x, y, carry) == Add64Table[x][y][carry]

Sbb(x, y, borrow) == Sub64Table[x][y][borrow]

Mulx(x, y) == Mul64Table[x][y]

\* The largest cond a caller passes to Select; 0 and 1 are the documented ones.
MaxCond == 2

\* The conds tried.
Conds == 0 .. MaxCond

\* cmovznz tabulated over its arguments, for evaluation speed.
cmovznzTable ==
    [c \in Conds |-> [v \in Word |-> [w \in Word |-> cmovznz(c, v, w)]]]

Cmov(arg1, arg2, arg3) == cmovznzTable[arg1][arg2][arg3]

\* ------------------------------------------------------------------------
\* Element: four limbs, least significant first, held as the integer they
\* spell; the value is in Montgomery form a * R mod p with R = WordMod^4.
\* ------------------------------------------------------------------------

\* The field prime, 2^256 - 2^32 - 977 in the source.
P == 163

\* -p^(-1) mod 2^LimbBits, 0xd838091dd2253531 in the source.
PPrime == 1

\* R = 2^(4 * LimbBits).
MontR == WordMod ^ 4

\* The limbs of an integer below R.
Limbs(v) ==
    << v % WordMod, (v \div WordMod) % WordMod,
       (v \div (WordMod ^ 2)) % WordMod, (v \div (WordMod ^ 3)) % WordMod >>

\* Limbs tabulated, for evaluation speed.
LimbsTable == [v \in 0 .. (MontR - 1) |-> Limbs(v)]

LimbsOf(v) == LimbsTable[v]

\* The integer four limbs spell.
FromLimbs(l) ==
    l[1] + WordMod * l[2] + (WordMod ^ 2) * l[3] + (WordMod ^ 3) * l[4]

\* The limbs of the prime: 0xfffffffefffffc2f, 0xff..ff, 0xff..ff, 0xff..ff.
PLimbs == LimbsOf(P)

RECURSIVE AddLimbs(_, _, _, _)
\* The Add64 carry chain over the words i.. of s and t: the sum words, then
\* the carry out of the last one.
AddLimbs(s, t, carry, i) ==
    IF i > Len(s) THEN << carry >>
    ELSE LET x == Adc(s[i], t[i], carry)
         IN  << x[1] >> \o AddLimbs(s, t, x[2], i + 1)

RECURSIVE SubLimbs(_, _, _, _)
\* The Sub64 borrow chain over the words i.. of s and t: the difference
\* words, then the borrow out of the last one.
SubLimbs(s, t, borrow, i) ==
    IF i > Len(s) THEN << borrow >>
    ELSE LET x == Sbb(s[i], t[i], borrow)
         IN  << x[1] >> \o SubLimbs(s, t, x[2], i + 1)

\* The cmovznz words that end CondSubP: the difference s when its borrow word
\* is 0, else the minuend r.
SelectSub(s, r) ==
    FromLimbs([i \in 1 .. 4 |-> Cmov(s[6], s[i], r[i])])

\* The conditional subtraction of p that ends Add, Mul, Square and the
\* Montgomery conversions: r the four low words and the carry word.
CondSubP(r) == SelectSub(SubLimbs(r, PLimbs \o << 0 >>, 0, 1), r)

\* Element.Add: limb-wise add, then the conditional subtraction of p.
\* Add without the subtraction of p: the low four limbs of the sum.
ElementAddUnreduced(t1, t2) ==
    FromLimbs([i \in 1 .. 4 |-> AddLimbs(LimbsOf(t1), LimbsOf(t2), 0, 1)[i]])

ElementAdd(t1, t2) == CondSubP(AddLimbs(LimbsOf(t1), LimbsOf(t2), 0, 1))

\* p masked by a word that is all ones or zero.
MaskedP(mask) == [i \in 1 .. 4 |-> WordAnd(mask, PLimbs[i])]

\* The masked addition of p that ends Sub: x the four difference words and
\* the borrow.
AddMaskedP(x) ==
    FromLimbs(AddLimbs(SubSeq(x, 1, 4), MaskedP(Cmov(x[5], 0, WordMax)), 0, 1))

\* A wrong Sub: the operands are taken in the other order.
ElementSubSwapped(t1, t2) ==
    AddMaskedP(SubLimbs(LimbsOf(t2), LimbsOf(t1), 0, 1))

\* Element.Sub: limb-wise subtract, then the masked addition of p.
ElementSub(t1, t2) == AddMaskedP(SubLimbs(LimbsOf(t1), LimbsOf(t2), 0, 1))

RECURSIVE MulRowFrom(_, _, _, _, _)
\* The Mul64 row of x * t from limb i on: each low word is added to the high
\* word of the limb before and the carry; the last word is high plus carry.
MulRowFrom(x, t, hi, carry, i) ==
    IF i > Len(t) THEN << hi + carry >>
    ELSE LET m == Mulx(x, t[i])
             w == Adc(m[2], hi, carry)
         IN  << w[1] >> \o MulRowFrom(x, t, m[1], w[2], i + 1)

\* The five words of x * t, t four limbs.
MulRow(x, t) == MulRowFrom(x, t, 0, 0, 1)

\* The reduction words of a round: the low word dropped, the two carries
\* summed into the top word.
MontShift(s, top) == << s[2], s[3], s[4], s[5], s[6] + top >>

\* The reduction of a round: add m * p with m = a[0] * p' so that the low
\* word cancels, and drop that word.
MontReduce(a) ==
    MontShift(AddLimbs(SubSeq(a, 1, 5),
                       MulRow(Mulx(a[1], PPrime)[2], PLimbs), 0, 1), a[6])

\* One round of the interleaved Montgomery multiplication: add x * t to the
\* five-word accumulator, then reduce.
MontRound(acc, x, t) == MontReduce(AddLimbs(acc, MulRow(x, t), 0, 1))

RECURSIVE MontRounds(_, _, _, _)
\* The rounds for the limbs i.. of a.
MontRounds(acc, a, t, i) ==
    IF i > Len(a) THEN acc
    ELSE MontRounds(MontRound(acc, a[i], t), a, t, i + 1)

\* The four rounds and the final conditional subtraction: a * b / R mod p.
MontMul(t1, t2) ==
    CondSubP(MontRounds(<< 0, 0, 0, 0, 0 >>, LimbsOf(t1), LimbsOf(t2), 1))

\* Element.Mul.
ElementMul(t1, t2) == MontMul(t1, t2)

\* Element.Square: the same rounds with both operands t.
ElementSquare(t) == MontMul(t, t)

\* Element.One: R mod p, 0x1000003d1 in the source.
MontOne == 93

\* R^2 mod p, the multiplier of toMontgomery (limbs 0x7a2000e90a1, 1, 0, 0).
MontR2 == 10

\* fromMontgomery: the four rounds with the multiplier 1, a / R mod p.
fromMontgomery(arg1) ==
    CondSubP(MontRounds(<< 0, 0, 0, 0, 0 >>, LimbsOf(arg1), << 1, 0, 0, 0 >>, 1))

\* toMontgomery: the four rounds with the multiplier R^2 mod p, a * R mod p.
toMontgomery(arg1) ==
    CondSubP(MontRounds(<< 0, 0, 0, 0, 0 >>, LimbsOf(arg1), LimbsOf(MontR2), 1))

\* The canonical (below p) limb values.
Canonical == 0 .. (P - 1)

\* The kernels tabulated over the canonical values, for evaluation speed.
ElementAddTable == [a \in Canonical |-> [c \in Canonical |-> ElementAdd(a, c)]]

ElementSubTable == [a \in Canonical |-> [c \in Canonical |-> ElementSub(a, c)]]

ElementMulTable == [a \in Canonical |-> [c \in Canonical |-> ElementMul(a, c)]]

ElementSquareTable == [a \in Canonical |-> ElementSquare(a)]

fromMontgomeryTable == [a \in Canonical |-> fromMontgomery(a)]

toMontgomeryTable == [a \in Canonical |-> toMontgomery(a)]

\* e.Add(a, b), e.Sub(a, b), e.Mul(a, b), e.Square(a) as values.
EAdd(a, b) == ElementAddTable[a][b]

ESub(a, b) == ElementSubTable[a][b]

EMul(a, b) == ElementMulTable[a][b]

ESquare(a) == ElementSquareTable[a]

\* ------------------------------------------------------------------------
\* Element byte input and output (src/element.go).
\* ------------------------------------------------------------------------

\* The length in bytes of an encoded element, 32 in the source.
ElementLength == 1

Byte == 0 .. 255

\* toBytes: the little-endian bytes of a value not in Montgomery form.
toBytes(v) == [i \in 1 .. ElementLength |-> (v \div (256 ^ (i - 1))) % 256]

RECURSIVE fromBytesAt(_, _)
fromBytesAt(b, i) ==
    IF i > Len(b) THEN 0 ELSE b[i] * (256 ^ (i - 1)) + fromBytesAt(b, i + 1)

\* fromBytes: the value little-endian bytes spell.
fromBytes(b) == fromBytesAt(b, 1)

\* invertEndianness: the bytes in reverse order.
invertEndianness(v) == [i \in 1 .. Len(v) |-> v[Len(v) + 1 - i]]

\* Element.Bytes: leave the Montgomery domain, serialise, reverse.
ElementBytes(e) ==
    invertEndianness(toBytes(fromMontgomeryTable[e]))

\* The encoding of -1 mod p that Element.SetBytes compares against.
minusOneEncoding == ElementBytes(ESub(0, MontOne))

RECURSIVE NotAboveStrict(_, _, _)
\* A wrong comparison loop: an input equal to the bound is refused as well.
NotAboveStrict(v, bound, i) ==
    IF i > Len(v) THEN FALSE
    ELSE IF v[i] < bound[i] THEN TRUE
    ELSE IF v[i] > bound[i] THEN FALSE
    ELSE NotAboveStrict(v, bound, i + 1)

RECURSIVE NotAbove(_, _, _)
\* The comparison loop of Element.SetBytes from byte i on: FALSE when a byte of
\* v is found greater than the bound's before one is found smaller.
NotAbove(v, bound, i) ==
    IF i > Len(v) THEN TRUE
    ELSE IF v[i] < bound[i] THEN TRUE
    ELSE IF v[i] > bound[i] THEN FALSE
    ELSE NotAbove(v, bound, i + 1)

\* Element.SetBytes on a receiver holding e: the error flag and the receiver
\* after the call.
ElementSetBytes(e, v) ==
    IF Len(v) # ElementLength THEN [err |-> TRUE, e |-> e]
    ELSE IF ~NotAbove(v, minusOneEncoding, 1) THEN [err |-> TRUE, e |-> e]
    ELSE LET plain == fromBytes(invertEndianness(v))
         IN  [err |-> FALSE,
              e |-> toMontgomeryTable[plain]]

\* subtle.ConstantTimeCompare: 1 when the slices are equal, else 0.
ConstantTimeCompare(x, y) == IF x = y THEN 1 ELSE 0

\* subtle.ConstantTimeByteEq.
ConstantTimeByteEq(x, y) == IF x = y THEN 1 ELSE 0

\* Element.Equal.
ElementEqual(e, t) == ConstantTimeCompare(ElementBytes(e), ElementBytes(t))

\* Element.IsZero.
ElementIsZero(e) ==
    ConstantTimeCompare(ElementBytes(e), [i \in 1 .. ElementLength |-> 0])

\* Element.Select: a when cond = 1, b when cond = 0, limb by limb.
ElementSelect(a, b, cond) ==
    LET la == LimbsOf(a)
        lb == LimbsOf(b)
    IN  FromLimbs(<< Cmov(cond, lb[1], la[1]), Cmov(cond, lb[2], la[2]),
                     Cmov(cond, lb[3], la[3]), Cmov(cond, lb[4], la[4]) >>)

\* The Element method of an instruction on the values of its operands.
Apply(method, x, y) ==
    CASE method = "Mul" -> EMul(x, y)
      [] method = "Square" -> ESquare(x)
      [] method = "Add" -> EAdd(x, y)
      [] method = "Sub" -> ESub(x, y)

\* One statement of a formula, dst.method(src1, src2), on the elements regs;
\* pc, the number of the statement to run, moves to the next one.
Exec(ins, regs) ==
    [regs EXCEPT ![ins[1]] = Apply(ins[2], regs[ins[3]], regs[ins[4]]),
                 !.pc = @ + 1]

RECURSIVE Run(_, _)
\* The statements of a formula from the one at pc to the last, in order.
Run(prog, regs) ==
    IF regs.pc > Len(prog) THEN regs ELSE Run(prog, Exec(prog[regs.pc], regs))

\* The elements of an exponentiation chain when it starts: the operand x, z
\* with the value given, and the locals, a new(Element) being zero.
ChainElements(z, x) == [pc |-> 1, x |-> x, z |-> z, t0 |-> 0, t1 |-> 0]

\* A wrong chain for Invert: its last multiplication reads z, which still
\* holds the copy of the receiver, in place of x.
InvertProgramReadsZ ==
    << << "t0", "Square", "x", "x" >>,
       << "t0", "Square", "t0", "t0" >>,
       << "t0", "Square", "t0", "t0" >>,
       << "t0", "Square", "t0", "t0" >>,
       << "t0", "Square", "t0", "t0" >>,
       << "t1", "Square", "t0", "t0" >>,
       << "t1", "Square", "t1", "t1" >>,
       << "t1", "Mul", "t1", "t0" >>,
       << "z", "Mul", "z", "t1" >> >>

\* The statements of Element.Invert: a fixed chain of squarings and
\* multiplications for the exponent p - 2 = 161 = 2^7 + 2^5 + 1.
InvertProgram ==
    << << "t0", "Square", "x", "x" >>,
       << "t0", "Square", "t0", "t0" >>,
       << "t0", "Square", "t0", "t0" >>,
       << "t0", "Square", "t0", "t0" >>,
       << "t0", "Square", "t0", "t0" >>,
       << "t1", "Square", "t0", "t0" >>,
       << "t1", "Square", "t1", "t1" >>,
       << "t1", "Mul", "t1", "t0" >>,
       << "z", "Mul", "x", "t1" >> >>

\* Element.Invert on a receiver holding e: z starts as a copy of e, the chain
\* runs unconditionally, and the receiver takes z.
ElementInvert(e, x) == Run(InvertProgram, ChainElements(e, x)).z

ElementInvertTable == [a \in Canonical |-> ElementInvert(0, a)]

EInvert(a) == ElementInvertTable[a]

\* The statements of sqrtCandidate: a fixed chain for the exponent
\* (p + 1) / 4 = 41 = 2^5 + 2^3 + 1.
sqrtCandidateProgram ==
    << << "t0", "Square", "x", "x" >>,
       << "t0", "Square", "t0", "t0" >>,
       << "t0", "Square", "t0", "t0" >>,
       << "t1", "Square", "t0", "t0" >>,
       << "t1", "Square", "t1", "t1" >>,
       << "t1", "Mul", "t1", "t0" >>,
       << "z", "Mul", "x", "t1" >> >>

\* sqrtCandidate(z, x): the value left in z, a new(Element) in sqrt.
sqrtCandidate(x) == Run(sqrtCandidateProgram, ChainElements(0, x)).z

\* The end of sqrt: e is the candidate when its square is x, and is unchanged
\* otherwise.
sqrtCheck(e, x, candidate) ==
    IF ElementEqual(ESquare(candidate), x) # 1
    THEN [isSquare |-> FALSE, e |-> e]
    ELSE [isSquare |-> TRUE, e |-> candidate]

\* sqrt with e the receiver's value.
sqrt(e, x) == sqrtCheck(e, x, sqrtCandidate(x))

\* ------------------------------------------------------------------------
\* Point: projective coordinates (X:Y:Z), each an Element.
\* ------------------------------------------------------------------------

\* The big-endian ElementLength-byte encoding of a small constant.
ConstBytes(c) == [i \in 1 .. ElementLength |-> IF i = ElementLength THEN c ELSE 0]

\* var b: the curve coefficient 7 as an Element.
b == ElementSetBytes(0, ConstBytes(7)).e

\* var b3: 3 * b = 21 (0x15) as an Element.
b3 == ElementSetBytes(0, ConstBytes(21)).e

\* NewPoint: the point at infinity (0, 1, 0).
NewPoint == [X |-> 0, Y |-> MontOne, Z |-> 0]

\* polynomial: x^3 + b.
polynomial(x) == EAdd(EMul(ESquare(x), x), b)

\* A wrong checkOnCurve: no pair is refused.
checkOnCurveNever(x, y) == FALSE

\* checkOnCurve: TRUE when it returns an error, y^2 # x^3 + b.
checkOnCurve(x, y) == ElementEqual(polynomial(x), ESquare(y)) # 1

\* The elements a formula works on when it starts: the coordinates of its
\* operands, the constant b3, and the locals, a new(Element) being zero.
Elements(p1, p2) ==
    [pc |-> 1, X1 |-> p1.X, Y1 |-> p1.Y, Z1 |-> p1.Z,
     X2 |-> p2.X, Y2 |-> p2.Y, Z2 |-> p2.Z, b3 |-> b3,
     t0 |-> 0, t1 |-> 0, t2 |-> 0, t3 |-> 0, t4 |-> 0, y2 |-> 0,
     x3 |-> 0, y3 |-> 0, z3 |-> 0]

\* The coordinates a formula stores at its end: x3, y3, z3.
Outcome(regs) == [X |-> regs.x3, Y |-> regs.y3, Z |-> regs.z3]

\* The statements of Point.Add, dst.method(src1, src2) each, with X1.. for
\* the coordinates of p1 and X2.. for those of p2.
AddProgram ==
    << << "t0", "Mul", "X1", "X2" >>,
       << "t1", "Mul", "Y1", "Y2" >>,
       << "t2", "Mul", "Z1", "Z2" >>,
       << "t3", "Add", "X1", "Y1" >>,
       << "t4", "Add", "X2", "Y2" >>,
       << "t3", "Mul", "t3", "t4" >>,
       << "t4", "Add", "t0", "t1" >>,
       << "t3", "Sub", "t3", "t4" >>,
       << "t4", "Add", "Y1", "Z1" >>,
       << "x3", "Add", "Y2", "Z2" >>,
       << "t4", "Mul", "t4", "x3" >>,
       << "x3", "Add", "t1", "t2" >>,
       << "t4", "Sub", "t4", "x3" >>,
       << "x3", "Add", "X1", "Z1" >>,
       << "y3", "Add", "X2", "Z2" >>,
       << "x3", "Mul", "x3", "y3" >>,
       << "y3", "Add", "t0", "t2" >>,
       << "y3", "Sub", "x3", "y3" >>,
       << "x3", "Add", "t0", "t0" >>,
       << "t0", "Add", "x3", "t0" >>,
       << "t2", "Mul", "b3", "t2" >>,
       << "z3", "Add", "t1", "t2" >>,
       << "t1", "Sub", "t1", "t2" >>,
       << "y3", "Mul", "b3", "y3" >>,
       << "x3", "Mul", "t4", "y3" >>,
       << "t2", "Mul", "t3", "t1" >>,
       << "x3", "Sub", "t2", "x3" >>,
       << "y3", "Mul", "y3", "t0" >>,
       << "t1", "Mul", "t1", "z3" >>,
       << "y3", "Add", "t1", "y3" >>,
       << "t0", "Mul", "t0", "t3" >>,
       << "z3", "Mul", "z3", "t4" >>,
       << "z3", "Add", "z3", "t0" >> >>

\* The statements of Point.Sub: those of Add on y2 = 0 - Y2 in place of Y2.
SubProgram ==
    << << "t0", "Mul", "X1", "X2" >>,
       << "y2", "Sub", "y2", "Y2" >>,
       << "t1", "Mul", "Y1", "y2" >>,
       << "t2", "Mul", "Z1", "Z2" >>,
       << "t3", "Add", "X1", "Y1" >>,
       << "t4", "Add", "X2", "y2" >>,
       << "t3", "Mul", "t3", "t4" >>,
       << "t4", "Add", "t0", "t1" >>,
       << "t3", "Sub", "t3", "t4" >>,
       << "t4", "Add", "Y1", "Z1" >>,
       << "x3", "Add", "y2", "Z2" >>,
       << "t4", "Mul", "t4", "x3" >>,
       << "x3", "Add", "t1", "t2" >>,
       << "t4", "Sub", "t4", "x3" >>,
       << "x3", "Add", "X1", "Z1" >>,
       << "y3", "Add", "X2", "Z2" >>,
       << "x3", "Mul", "x3", "y3" >>,
       << "y3", "Add", "t0", "t2" >>,
       << "y3", "Sub", "x3", "y3" >>,
       << "x3", "Add", "t0", "t0" >>,
       << "t0", "Add", "x3", "t0" >>,
       << "t2", "Mul", "b3", "t2" >>,
       << "z3", "Add", "t1", "t2" >>,
       << "t1", "Sub", "t1", "t2" >>,
       << "y3", "Mul", "b3", "y3" >>,
       << "x3", "Mul", "t4", "y3" >>,
       << "t2", "Mul", "t3", "t1" >>,
       << "x3", "Sub", "t2", "x3" >>,
       << "y3", "Mul", "y3", "t0" >>,
       << "t1", "Mul", "t1", "z3" >>,
       << "y3", "Add", "t1", "y3" >>,
       << "t0", "Mul", "t0", "t3" >>,
       << "z3", "Mul", "z3", "t4" >>,
       << "z3", "Add", "z3", "t0" >> >>

\* The statements of Point.Double, with X1, Y1, Z1 for the coordinates of p.
DoubleProgram ==
    << << "t0", "Square", "Y1", "Y1" >>,
       << "z3", "Add", "t0", "t0" >>,
       << "z3", "Add", "z3", "z3" >>,
       << "z3", "Add", "z3", "z3" >>,
       << "t1", "Mul", "Y1", "Z1" >>,
       << "t2", "Square", "Z1", "Z1" >>,
       << "t2", "Mul", "b3", "t2" >>,
       << "x3", "Mul", "t2", "z3" >>,
       << "y3", "Add", "t0", "t2" >>,
       << "z3", "Mul", "t1", "z3" >>,
       << "t1", "Add", "t2", "t2" >>,
       << "t2", "Add", "t1", "t2" >>,
       << "t0", "Sub", "t0", "t2" >>,
       << "y3", "Mul", "t0", "y3" >>,
       << "y3", "Add", "x3", "y3" >>,
       << "t1", "Mul", "X1", "Y1" >>,
       << "x3", "Mul", "t0", "t1" >>,
       << "x3", "Add", "x3", "x3" >> >>

\* The x3, y3, z3 of Point.Add(p1, p2).
AddXYZ(p1, p2) == Outcome(Run(AddProgram, Elements(p1, p2)))

\* A wrong Sub: Y2 taken as it is, the sum instead of the difference.
SubXYZUnnegated(p1, p2) == Outcome(Run(AddProgram, Elements(p1, p2)))

\* The x3, y3, z3 of Point.Sub(p1, p2).
SubXYZ(p1, p2) == Outcome(Run(SubProgram, Elements(p1, p2)))

\* A wrong Double: the last statement, X3 := X3 + X3, is left out.
DoubleXYZShort(p) ==
    Outcome(Run(SubSeq(DoubleProgram, 1, Len(DoubleProgram) - 1),
                Elements(p, p)))

\* The x3, y3, z3 of Point.Double(p).
DoubleXYZ(p) == Outcome(Run(DoubleProgram, Elements(p, p)))

\* The coordinates Point.Select leaves in its receiver.
\* Select with p1 and p2 exchanged in the second and third coordinates.
SelectXYZCrossed(p1, p2, cond) ==
    [X |-> ElementSelect(p1.X, p2.X, cond),
     Y |-> ElementSelect(p2.Y, p1.Y, cond),
     Z |-> ElementSelect(p2.Z, p1.Z, cond)]

SelectXYZ(p1, p2, cond) ==
    [X |-> ElementSelect(p1.X, p2.X, cond),
     Y |-> ElementSelect(p1.Y, p2.Y, cond),
     Z |-> ElementSelect(p1.Z, p2.Z, cond)]

\* A wrong end of Point.bytes: y is written before x.
bytesAffineSwapped(p, zinv) ==
    << 4 >> \o ElementBytes(EMul(p.Y, zinv)) \o ElementBytes(EMul(p.X, zinv))

\* The end of Point.bytes off the identity, zinv being 1/Z: the prefix 4, then
\* x = X * zinv and y = Y * zinv.
bytesAffine(p, zinv) ==
    << 4 >> \o ElementBytes(EMul(p.X, zinv)) \o ElementBytes(EMul(p.Y, zinv))

\* Point.bytes: the uncompressed or infinity encoding.
PointBytes(p) ==
    IF ElementIsZero(p.Z) = 1 THEN << 0 >>
    ELSE bytesAffine(p, EInvert(p.Z))

\* A wrong bytesX: without the test of Z, the identity encodes as x = 0.
PointBytesXUnchecked(p) ==
    [err |-> FALSE, out |-> ElementBytes(EMul(p.X, EInvert(p.Z)))]

\* Point.bytesX: the encoding of x, or an error at the point at infinity.
PointBytesX(p) ==
    IF ElementIsZero(p.Z) = 1 THEN [err |-> TRUE, out |-> << >>]
    ELSE [err |-> FALSE, out |-> ElementBytes(EMul(p.X, EInvert(p.Z)))]

\* The end of Point.bytesCompressed off the identity, zinv being 1/Z: the
\* prefix 2 | (last byte of y) & 1, then x.
bytesCompressedAffine(p, zinv) ==
    << BitOr(2, BitAnd(ElementBytes(EMul(p.Y, zinv))[ElementLength], 1)) >>
    \o ElementBytes(EMul(p.X, zinv))

\* Point.bytesCompressed: the compressed or infinity encoding.
PointBytesCompressed(p) ==
    IF ElementIsZero(p.Z) = 1 THEN << 0 >>
    ELSE bytesCompressedAffine(p, EInvert(p.Z))

\* The uncompressed case of Point.SetBytes, x and y being the outcomes of
\* Element.SetBytes on the two halves.
SetBytesUncompressed(p, x, y) ==
    IF x.err THEN [err |-> TRUE, p |-> p]
    ELSE IF y.err THEN [err |-> TRUE, p |-> p]
    ELSE IF checkOnCurve(x.e, y.e) THEN [err |-> TRUE, p |-> p]
    ELSE [err |-> FALSE, p |-> [X |-> x.e, Y |-> y.e, Z |-> MontOne]]

\* A wrong choice of the root: the operands of Select exchanged.
SelectRootOther(in, y) ==
    ElementSelect(y, ESub(0, y),
                  BitXor(BitAnd(ElementBytes(y)[ElementLength], 1),
                         BitAnd(in[1], 1)))

\* The root the compressed case keeps: y.Select(otherRoot, y, cond) with
\* otherRoot = 0 - y and cond = y.Bytes()[ElementLength-1]&1 ^ b[0]&1.
SelectRoot(in, y) ==
    ElementSelect(ESub(0, y), y,
                  BitXor(BitAnd(ElementBytes(y)[ElementLength], 1),
                         BitAnd(in[1], 1)))

\* sqrt(y, y): the receiver is the operand.
sqrtInPlace(y) == sqrt(y, y)

\* A wrong end of the compressed case: p.X.Set(x) comes before the test of
\* the square root.
SetBytesRootEarly(p, in, x, r) ==
    IF ~r.isSquare THEN [err |-> TRUE, p |-> [p EXCEPT !.X = x]]
    ELSE [err |-> FALSE, p |-> [X |-> x, Y |-> SelectRoot(in, r.e), Z |-> MontOne]]

\* The end of the compressed case, r being the outcome of sqrt(y, y) on
\* y = polynomial(x).
SetBytesRoot(p, in, x, r) ==
    IF ~r.isSquare THEN [err |-> TRUE, p |-> p]
    ELSE [err |-> FALSE, p |-> [X |-> x, Y |-> SelectRoot(in, r.e), Z |-> MontOne]]

\* The compressed case of Point.SetBytes, x being the outcome of
\* Element.SetBytes on the bytes after the prefix.
SetBytesCompressed(p, in, x) ==
    IF x.err THEN [err |-> TRUE, p |-> p]
    ELSE SetBytesRoot(p, in, x.e, sqrtInPlace(polynomial(x.e)))

\* Point.SetBytes on a receiver holding p: the error flag and the receiver's
\* coordinates after the call.
PointSetBytesXYZ(p, in) ==
    IF Len(in) = 1 /\ in[1] = 0
    THEN [err |-> FALSE, p |-> NewPoint]
    ELSE IF Len(in) = 1 + 2 * ElementLength /\ in[1] = 4
    THEN SetBytesUncompressed(
             p, ElementSetBytes(0, SubSeq(in, 2, 1 + ElementLength)),
             ElementSetBytes(0, SubSeq(in, 2 + ElementLength, Len(in))))
    ELSE IF Len(in) = 1 + ElementLength /\ (in[1] = 2 \/ in[1] = 3)
    THEN SetBytesCompressed(p, in, ElementSetBytes(0, SubSeq(in, 2, Len(in))))
    ELSE [err |-> TRUE, p |-> p]

\* The SEC1 coordinates of the generator: Gx, Gy (Gy even, as in the source).
Gx == 2

Gy == 34

\* var g: the generator decoded from its uncompressed encoding.
GeneratorValue ==
    PointSetBytesXYZ(NewPoint, << 4 >> \o ConstBytes(Gx) \o ConstBytes(Gy)).p

\* ------------------------------------------------------------------------
\* Points as objects: a heap is a sequence of coordinate triples, a *Point is
\* an index into it, and a method returns the heap it leaves and the pointer
\* it returns (0 for nil).
\* ------------------------------------------------------------------------

\* NewGenerator: a fresh point holding a copy of g.
NewGenerator == GeneratorValue

\* A wrong Set: the coordinates are copied from the receiver into q.
PointSetBackwards(h, p, q) == [h |-> [h EXCEPT ![q] = h[p]], ret |-> p]

\* Point.Set: p takes q's coordinates; returns p.
PointSet(h, p, q) == [h |-> [h EXCEPT ![p] = h[q]], ret |-> p]

\* Point.Select: q takes p1 when cond = 1 and p2 when cond = 0; returns q.
PointSelect(h, q, p1, p2, cond) ==
    [h |-> [h EXCEPT ![q] = SelectXYZ(h[p1], h[p2], cond)], ret |-> q]

\* The point NewGenerator allocates: every coordinate a new(Element).
ZeroPoint == [X |-> 0, Y |-> 0, Z |-> 0]

\* NewGenerator as a method on the heap, fresh being the pointer to the point
\* it allocates and g the pointer to the package's generator: fresh.Set(g).
NewGeneratorAt(h, fresh, g) == PointSet([h EXCEPT ![fresh] = ZeroPoint], fresh, g)

\* Point.Add: q takes p1 + p2, computed before any coordinate of q is written;
\* returns q.
PointAdd(h, q, p1, p2) ==
    [h |-> [h EXCEPT ![q] = AddXYZ(h[p1], h[p2])], ret |-> q]

\* Point.Sub: q takes p1 - p2; returns q.
PointSub(h, q, p1, p2) ==
    [h |-> [h EXCEPT ![q] = SubXYZ(h[p1], h[p2])], ret |-> q]

\* Point.Double of src/unnamed/part_000: the doubling of p is stored through p
\* (p.X.Set(x3), p.Y.Set(y3), p.Z.Set(z3)) and p is returned; the receiver q is
\* neither written nor returned.
PointDouble(h, q, p) ==
    [h |-> [h EXCEPT ![p] = DoubleXYZ(h[p])], ret |-> p]

\* P256K1Point.Double of src/p256k1.go: the doubling of p is stored through
\* the receiver q, and q is returned.
P256K1PointDouble(h, q, p) ==
    [h |-> [h EXCEPT ![q] = DoubleXYZ(h[p])], ret |-> q]

\* The Double method of a point type: "Point" or "P256K1Point".
DoubleOf(type, h, q, p) ==
    IF type = "Point" THEN PointDouble(h, q, p) ELSE P256K1PointDouble(h, q, p)

\* The number of entries of a table, [1]P to [15]P.
TableSize == 15

RECURSIVE tableSelectFrom(_, _, _)
\* The loop of table.Select from entry st.i on: p.Select(table[i-1], p, cond)
\* with cond = ConstantTimeByteEq(i, n), st.p being the value p holds so far.
tableSelectFrom(table, st, n) ==
    IF st.i > TableSize THEN st.p
    ELSE tableSelectFrom(table,
                         [p |-> SelectXYZ(table[st.i], st.p,
                                          ConstantTimeByteEq(st.i, n)),
                          i |-> st.i + 1],
                         n)

\* A table.Select without the test of n.
tableSelectUnchecked(table, n) ==
    [panic |-> FALSE,
     p |-> tableSelectFrom(table, [p |-> NewPoint, i |-> 1], n)]

\* table.Select: the value left in p, table being the values of the 15
\* entries; panics when n >= 16.
tableSelect(table, n) ==
    IF n >= 16 THEN [panic |-> TRUE, p |-> NewPoint]
    ELSE [panic |-> FALSE,
          p |-> tableSelectFrom(table, [p |-> NewPoint, i |-> 1], n)]

\* The values of the table whose entries are the heap objects
\* base + 1 .. base + 15.
TableValues(h, base) == SubSeq(h, base + 1, base + TableSize)

\* One turn of the loop that fills the table of ScalarMult:
\* table[i].Double(table[i/2]) and table[i+1].Add(table[i], q), table[k] being
\* the heap object base + k + 1.
TablePair(type, h, base, q, i) ==
    PointAdd(DoubleOf(type, h, base + i + 1, base + (i \div 2) + 1).h,
             base + i + 2, base + i + 1, q).h

RECURSIVE ScalarMultTable(_, _, _, _)
\* The loop that fills the table, from i = st.i on in steps of two, st.h
\* being the heap so far.
ScalarMultTable(type, st, base, q) ==
    IF st.i >= TableSize THEN st.h
    ELSE ScalarMultTable(type,
                         [h |-> TablePair(type, st.h, base, q, st.i),
                          i |-> st.i + 2],
                         base, q)

RECURSIVE DoubleTimes(_, _, _, _)
\* p.Double(p), n times in a row.
DoubleTimes(type, h, p, n) ==
    IF n = 0 THEN h
    ELSE DoubleOf(type, DoubleTimes(type, h, p, n - 1), p, p).h

\* table.Select(t, n) and p.Add(p, t), table being the values of the entries
\* and t a heap object.
WindowAdd(h, table, p, t, n) ==
    PointAdd([h EXCEPT ![t] = tableSelect(table, n).p], p, p, t).h

\* A window of ScalarMult: the table is at base + 1 .. base + 15 and t at
\* base + 16.
ScalarWindowAdd(h, base, p, n) ==
    WindowAdd(h, TableValues(h, base), p, base + TableSize + 1, n)

\* The four doublings that open a turn of the loop of ScalarMult, skipped on
\* the first byte (i != 0 in the source, whose bytes count from 0).
LeadingDoubles(type, h, p, i) ==
    IF i # 1 THEN DoubleTimes(type, h, p, 4) ELSE h

\* One turn of the loop of ScalarMult, on the i-th byte: the leading
\* doublings, the high window selected and added, four doublings, the low
\* window selected and added.
ScalarMultByte(type, h, p, base, byte, i) ==
    ScalarWindowAdd(
        DoubleTimes(type,
                    ScalarWindowAdd(LeadingDoubles(type, h, p, i), base, p,
                                    byte \div 16),
                    p, 4),
        base, p, BitAnd(byte, 15))

RECURSIVE ScalarMultLoop(_, _, _, _, _)
\* The loop of ScalarMult over the bytes of the scalar from the st.i-th on,
\* st.h being the heap so far.
ScalarMultLoop(type, st, p, base, scalar) ==
    IF st.i > Len(scalar) THEN st.h
    ELSE ScalarMultLoop(type,
                        [h |-> ScalarMultByte(type, st.h, p, base,
                                              scalar[st.i], st.i),
                         i |-> st.i + 1],
                        p, base, scalar)

\* The heap when the loop of ScalarMult starts: the table's fifteen points and
\* t are allocated after the caller's points, table[0].Set(q), the table is
\* filled, p.Set(NewPoint()).
ScalarMultStart(type, h, p, q) ==
    [ScalarMultTable(type,
                     [h |-> PointSet(h \o [i \in 1 .. (TableSize + 1)
                                                |-> NewPoint],
                                     Len(h) + 1, q).h,
                      i |-> 1],
                     Len(h), q)
        EXCEPT ![p] = NewPoint]

\* ScalarMult of the point type: the loop runs from the start heap, and p is
\* returned with a nil error; the callee's points are dropped from the heap.
ScalarMultOf(type, h, p, q, scalar) ==
    [h |-> SubSeq(ScalarMultLoop(type,
                                 [h |-> ScalarMultStart(type, h, p, q),
                                  i |-> 1],
                                 p, Len(h), scalar), 1, Len(h)),
     ret |-> p, err |-> FALSE]

\* Point.ScalarMult (src/unnamed/part_000).
PointScalarMult(h, p, q, scalar) == ScalarMultOf("Point", h, p, q, scalar)

\* P256K1Point.ScalarMult (src/p256k1.go).
P256K1PointScalarMult(h, p, q, scalar) ==
    ScalarMultOf("P256K1Point", h, p, q, scalar)

RECURSIVE generatorTableRow(_, _)
\* One table of the generator tables, row being its entries so far: table[0]
\* a copy of base, table[j] = table[j-1] + base.
generatorTableRow(base, row) ==
    IF Len(row) >= TableSize THEN row
    ELSE generatorTableRow(base, Append(row, AddXYZ(row[Len(row)], base)))

RECURSIVE generatorTableFrom(_, _)
\* The tables from the i-th on (i counted from 0), base being doubled four
\* times in place after each.
generatorTableFrom(base, i) ==
    IF i >= ElementLength * 2 THEN << >>
    ELSE << generatorTableRow(base, << base >>) >>
         \o generatorTableFrom(DoubleTimes("Point", << base >>, 1, 4)[1], i + 1)

\* The function generatorTableOnce.Do runs: ElementLength * 2 tables, the
\* first of the multiples of G.
generatorTableBuild == generatorTableFrom(NewGenerator, 0)

\* A wrong turn of the loop of ScalarBaseMult: both windows are selected from
\* tables[tableIndex - 1].
ScalarBaseMultByteOneTable(tables, h, p, byte, tableIndex) ==
    WindowAdd(WindowAdd(h, tables[tableIndex], p, Len(h), byte \div 16),
              tables[tableIndex], p, Len(h), BitAnd(byte, 15))

\* One turn of the loop of ScalarBaseMult: the high window from
\* tables[tableIndex], the low one from tables[tableIndex - 1], tableIndex
\* counted from 0 and t the last heap object.
ScalarBaseMultByte(tables, h, p, byte, tableIndex) ==
    WindowAdd(WindowAdd(h, tables[tableIndex + 1], p, Len(h), byte \div 16),
              tables[tableIndex], p, Len(h), BitAnd(byte, 15))

RECURSIVE ScalarBaseMultLoop(_, _, _, _)
\* The loop of ScalarBaseMult over the bytes of the scalar from the st.i-th
\* on, st.h being the heap so far and st.tableIndex going down by two per
\* byte.
ScalarBaseMultLoop(tables, st, p, scalar) ==
    IF st.i > Len(scalar) THEN st.h
    ELSE ScalarBaseMultLoop(tables,
                            [h |-> ScalarBaseMultByte(tables, st.h, p,
                                                      scalar[st.i],
                                                      st.tableIndex),
                             i |-> st.i + 1,
                             tableIndex |-> st.tableIndex - 2],
                            p, scalar)

\* The heap ScalarBaseMult leaves: t := NewPoint(), p.Set(NewPoint()), the
\* loop, t dropped.
ScalarBaseMultHeap(tables, h, p, scalar) ==
    SubSeq(ScalarBaseMultLoop(tables,
                              [h |-> [Append(h, NewPoint)
                                         EXCEPT ![p] = NewPoint],
                               i |-> 1,
                               tableIndex |-> Len(tables) - 1],
                              p, scalar), 1, Len(h))

\* The tables generatorTable() returns, gt being the package's generatorTable
\* (<< >> for nil): built by the first call, kept afterwards.
generatorTableOf(gt) == IF gt = << >> THEN generatorTableBuild ELSE gt

\* A wrong ScalarBaseMult: p.Set(NewPoint()) comes before the test of the
\* scalar's length.
PointScalarBaseMultResetsFirst(h, gt, p, scalar) ==
    IF Len(scalar) # ElementLength
    THEN [h |-> [h EXCEPT ![p] = NewPoint], gt |-> gt, ret |-> 0, err |-> TRUE]
    ELSE [h |-> ScalarBaseMultHeap(generatorTableOf(gt), h, p, scalar),
          gt |-> generatorTableOf(gt), ret |-> p, err |-> FALSE]

\* Point.ScalarBaseMult: nil and an error when the scalar is not ElementLength
\* bytes long, before the tables are asked for; else p takes the sum of the
\* selected entries.
PointScalarBaseMult(h, gt, p, scalar) ==
    IF Len(scalar) # ElementLength
    THEN [h |-> h, gt |-> gt, ret |-> 0, err |-> TRUE]
    ELSE [h |-> ScalarBaseMultHeap(generatorTableOf(gt), h, p, scalar),
          gt |-> generatorTableOf(gt), ret |-> p, err |-> FALSE]

\* ------------------------------------------------------------------------
\* The mathematics the claims are stated against: the field and the group of
\* the curve in affine coordinates, with plain modular arithmetic and the
\* chord-and-tangent law.  Nothing here is taken from the code.
\* ------------------------------------------------------------------------

\* 1/R mod p.
RInv == CHOOSE r \in 1 .. (P - 1) : (r * (MontR % P)) % P = 1

\* The field value an Element in Montgomery form stands for.
FieldVal(e) == (e * RInv) % P

\* 1/a mod p for a # 0.
ModInvTable == [a \in 1 .. (P - 1) |-> CHOOSE z \in 1 .. (P - 1) : (a * z) % P = 1]

ModInv(a) == ModInvTable[a % P]

\* The point at infinity of the affine description.
Infinity == << >>

\* The affine points of the curve: the pairs (x, y) with y^2 = x^3 + 7.
CurvePoints ==
    {xy \in (0 .. (P - 1)) \X (0 .. (P - 1)) :
        (xy[2] * xy[2]) % P = (xy[1] * xy[1] * xy[1] + 7) % P}

\* The group: the affine points and infinity.
Group == CurvePoints \cup {Infinity}

\* The negation of a group element.
RefNeg(A) == IF A = Infinity THEN Infinity ELSE << A[1], (P - A[2]) % P >>

\* The chord-and-tangent sum of two group elements.
RefAdd(A, B) ==
    IF A = Infinity THEN B
    ELSE IF B = Infinity THEN A
    ELSE IF A[1] = B[1] /\ (A[2] + B[2]) % P = 0 THEN Infinity
    ELSE LET l == IF A = B
                  THEN (3 * A[1] * A[1] * ModInv(2 * A[2])) % P
                  ELSE ((B[2] - A[2] + P) * ModInv(B[1] - A[1] + P)) % P
             x == (l * l + 2 * P - A[1] - B[1]) % P
             y == (l * (A[1] - x + P) + P - A[2]) % P
         IN  << x, y >>

RECURSIVE RefMul(_, _)
\* [k]A by double-and-add on the affine law.
RefMul(k, A) ==
    IF k = 0 THEN Infinity
    ELSE LET h == RefMul(k \div 2, A)
             d == RefAdd(h, h)
         IN  IF k % 2 = 1 THEN RefAdd(d, A) ELSE d

\* The group element a Point stands for: infinity when Z = 0, (X/Z, Y/Z) otherwise.
Affine(p) ==
    IF FieldVal(p.Z) = 0 THEN Infinity
    ELSE << (FieldVal(p.X) * ModInv(FieldVal(p.Z))) % P,
            (FieldVal(p.Y) * ModInv(FieldVal(p.Z))) % P >>

\* A Point whose coordinates are canonical and satisfy the projective curve
\* equation, or that is an identity (0 : Y : 0) with Y # 0.
ValidPoint(p) ==
    /\ p.X \in Canonical /\ p.Y \in Canonical /\ p.Z \in Canonical
    /\ LET x == FieldVal(p.X)
           y == FieldVal(p.Y)
           z == FieldVal(p.Z)
       IN  IF z = 0 THEN x = 0 /\ y # 0
           ELSE (y * y * z) % P = (x * x * x + 7 * z * z * z) % P

\* The order n of the group.
GroupOrder == Cardinality(Group)

\* The generator as a group element.
RefG == << Gx, Gy >>

RECURSIVE BigEndian(_)
\* The integer a big-endian byte string spells.
BigEndian(s) ==
    IF Len(s) = 0 THEN 0
    ELSE 256 * BigEndian(SubSeq(s, 1, Len(s) - 1)) + s[Len(s)]

\* ------------------------------------------------------------------------
\* The program as a state machine: a caller holding points and calling the
\* package's methods on them.
\* ------------------------------------------------------------------------

VARIABLES
    pts,             \* the caller's points: a heap, pts[i] the coordinates of i
    pre,             \* the heap before the last call
    op,              \* the last call: its name, operands, input and results
    generatorTable,  \* the package's generator tables, << >> while nil
    calls,           \* the number of calls made
    els,             \* the caller's elements: a heap, els[i] the limbs of i
    pc,              \* where each goroutine is in its call
    once,            \* generatorTableOnce: its done flag, who holds its m,
                     \* and how often Do has run its function
    seen,            \* the generator tables each goroutine has read
    key,             \* the byte arrays of the keys: a heap, key[1] the array
                     \* of the caller's slice
    priv,            \* the array a PrivateKey's privateKey is a slice of, 0
                     \* without a PrivateKey
    run              \* the calls under way that are followed step by step:
                     \* run[r] the position and the locals of call r

vars ==
    << pts, pre, op, generatorTable, calls, els, pc, once, seen, key, priv, run >>

\* What the calls on points of one caller leave alone.
besides == << els, pc, once, seen, key, priv, run >>

\* sync.Once's zero value: not done, its mutex free; its function not run.
OnceZero == [done |-> 0, m |-> 0, ran |-> 0]

\* No elements.
NoElements == els = << >>

\* No goroutines, and a generatorTableOnce not used yet.
NoGoroutines ==
    /\ pc = << >>
    /\ once = OnceZero
    /\ seen = << >>

\* No keys.
NoKeys ==
    /\ key = << >>
    /\ priv = 0

\* No call followed step by step.
NoRuns == run = << >>

NothingElse == NoElements /\ NoGoroutines /\ NoKeys /\ NoRuns

\* The pointers the caller holds.
PointIds == DOMAIN pts

\* The largest x coordinate of the encodings the caller's first points are
\* decoded from.
MaxStartX == 4

\* The number of calls of a run of the arithmetic.
MaxCalls == 2

\* A call's record; ret = 0 is a nil pointer, unused fields are 0 or << >>.
Call(name, recv, arg1, arg2, in, ret, err, out) ==
    [name |-> name, recv |-> recv, arg1 |-> arg1, arg2 |-> arg2, in |-> in,
     ret |-> ret, err |-> err, out |-> out]

NoCall == Call("none", 0, 0, 0, << >>, 0, FALSE, << >>)

\* The points a caller has at the start: NewPoint(), and NewPoint().SetBytes
\* of a compressed encoding that decodes.
StartPoints ==
    {NewPoint} \cup
    {PointSetBytesXYZ(NewPoint, << pfx, xb >>).p :
        << pfx, xb >> \in {in \in {2, 3} \X (0 .. MaxStartX) :
                              ~PointSetBytesXYZ(NewPoint, in).err}}

\* Two decoded points and a fresh one.
InitArith ==
    /\ pts \in {<< s1, s2, NewPoint >> : s1 \in StartPoints, s2 \in StartPoints}
    /\ pre = pts
    /\ op = NoCall
    /\ generatorTable = << >>
    /\ calls = 0
    /\ NothingElse

\* The state a call of a method on points leaves: r the method's heap and
\* returned pointer.
Called(name, recv, arg1, arg2, r) ==
    /\ pre' = pts
    /\ pts' = r.h
    /\ op' = Call(name, recv, arg1, arg2, << >>, r.ret, FALSE, << >>)
    /\ calls' = calls + 1
    /\ UNCHANGED << generatorTable, besides >>

\* q.Add(p1, p2)
Add(q, p1, p2) ==
    /\ calls < MaxCalls
    /\ Called("Add", q, p1, p2, PointAdd(pts, q, p1, p2))

\* q.Sub(p1, p2)
Sub(q, p1, p2) ==
    /\ calls < MaxCalls
    /\ Called("Sub", q, p1, p2, PointSub(pts, q, p1, p2))

\* q.Double(p) on Points
Double(q, p) ==
    /\ calls < MaxCalls
    /\ Called("Double", q, p, 0, PointDouble(pts, q, p))

\* q.Double(p) on P256K1Points
P256K1Double(q, p) ==
    /\ calls < MaxCalls
    /\ Called("P256K1Double", q, p, 0, P256K1PointDouble(pts, q, p))

NextArith ==
    \/ \E q \in PointIds, p1 \in PointIds, p2 \in PointIds : Add(q, p1, p2)
    \/ \E q \in PointIds, p1 \in PointIds, p2 \in PointIds : Sub(q, p1, p2)
    \/ \E q \in PointIds, p \in PointIds : Double(q, p)
    \/ \E q \in PointIds, p \in PointIds : P256K1Double(q, p)

SpecArith == InitArith /\ [][NextArith]_vars

\* Every point the caller holds is a valid representation of a group element.
PointsValid == \A i \in PointIds : ValidPoint(pts[i])

\* ------------------------------------------------------------------------
\* Elements: a caller holding elements and calling Element's methods.
\* ------------------------------------------------------------------------

\* The number of calls of a run on elements.
MaxElementCalls == 1

\* The largest small value of the caller's second element and of the second
\* byte of a two-byte input.
MaxSecond == 7

\* The pointers to elements the caller holds.
ElementIds == DOMAIN els

\* The values of the second element: the zero value, One, small values and
\* p - 1, as SetBytes leaves them.
SecondElements ==
    {ElementSetBytes(0, << v >>).e : v \in (0 .. MaxSecond) \cup {P - 1}}

\* The inputs of Element.SetBytes: every one of one byte, the empty one and
\* some of two bytes.
ElementInputs ==
    {<< >>} \cup {<< v >> : v \in Byte} \cup {<< 0, v >> : v \in 0 .. MaxSecond}

\* Two elements: any canonical one, and one of SecondElements.
InitElement ==
    /\ els \in {<< a, c >> : a \in Canonical, c \in SecondElements}
    /\ pre = els
    /\ op = NoCall
    /\ pts = << >>
    /\ generatorTable = << >>
    /\ calls = 0
    /\ NoGoroutines
    /\ NoKeys
    /\ NoRuns

\* The state a call of a method on elements leaves: the receiver e holds
\* value, and the method returned ret with the error flag err and the bytes out.
ElementCalled(name, e, x, y, in, value, ret, err, out) ==
    /\ pre' = els
    /\ els' = [els EXCEPT ![e] = value]
    /\ op' = Call(name, e, x, y, in, ret, err, out)
    /\ calls' = calls + 1
    /\ UNCHANGED << pts, generatorTable, pc, once, seen, key, priv, run >>

\* e.One()
CallOne(e) ==
    ElementCalled("One", e, 0, 0, << >>, MontOne, e, FALSE, << >>)

\* e.Set(t)
CallSet(e, t) ==
    ElementCalled("Set", e, t, 0, << >>, els[t], e, FALSE, << >>)

\* e.Bytes()
CallBytes(e) ==
    ElementCalled("Bytes", e, 0, 0, << >>, els[e], 0, FALSE,
                  ElementBytes(els[e]))

\* e.SetBytes(v): e and a nil error, or nil and an error.
CallSetBytes(e, v) ==
    LET r == ElementSetBytes(els[e], v)
    IN  ElementCalled("SetBytes", e, 0, 0, v, r.e,
                      IF r.err THEN 0 ELSE e, r.err, << >>)

\* e.Select(a, c, cond)
CallSelect(e, a, c, cond) ==
    ElementCalled("Select", e, a, c, << cond >>,
                  ElementSelect(els[a], els[c], cond), e, FALSE, << >>)

\* e.Add(x, y)
CallAdd(e, x, y) ==
    ElementCalled("Add", e, x, y, << >>, EAdd(els[x], els[y]), e, FALSE, << >>)

\* e.Sub(x, y)
CallSub(e, x, y) ==
    ElementCalled("Sub", e, x, y, << >>, ESub(els[x], els[y]), e, FALSE, << >>)

\* e.Mul(x, y)
CallMul(e, x, y) ==
    ElementCalled("Mul", e, x, y, << >>, EMul(els[x], els[y]), e, FALSE, << >>)

\* e.Square(x)
CallSquare(e, x) ==
    ElementCalled("Square", e, x, 0, << >>, ESquare(els[x]), e, FALSE, << >>)

\* e.Invert(x)
CallInvert(e, x) ==
    ElementCalled("Invert", e, x, 0, << >>, ElementInvert(els[e], els[x]),
                  e, FALSE, << >>)

\* A caller makes its calls on elements within the kernels' canonical range; a
\* Select with a cond other than 0 and 1 may leave limbs outside it.
NextElement ==
    /\ calls < MaxElementCalls
    /\ \A i \in ElementIds : els[i] \in Canonical
    /\ \/ \E e \in ElementIds : CallOne(e)
       \/ \E e \in ElementIds, t \in ElementIds : CallSet(e, t)
       \/ \E e \in ElementIds : CallBytes(e)
       \/ \E e \in ElementIds, v \in ElementInputs : CallSetBytes(e, v)
       \/ \E e \in ElementIds, a \in ElementIds, c \in ElementIds,
             cond \in Conds : CallSelect(e, a, c, cond)
       \/ \E e \in ElementIds, x \in ElementIds, y \in ElementIds :
             CallAdd(e, x, y)
       \/ \E e \in ElementIds, x \in ElementIds, y \in ElementIds :
             CallSub(e, x, y)
       \/ \E e \in ElementIds, x \in ElementIds, y \in ElementIds :
             CallMul(e, x, y)
       \/ \E e \in ElementIds, x \in ElementIds : CallSquare(e, x)
       \/ \E e \in ElementIds, x \in ElementIds : CallInvert(e, x)

SpecElement == InitElement /\ [][NextElement]_vars

\* ------------------------------------------------------------------------
\* Encoding and decoding.
\* ------------------------------------------------------------------------

\* The number of calls of a run of the encoders and the decoder.
MaxCodecCalls == 1

\* The largest first byte of the decoder's inputs.
MaxPrefix == 7

\* The largest small x coordinate among the decoder's uncompressed inputs.
MaxCoord == 3

\* The first bytes tried.
Prefixes == 0 .. MaxPrefix

\* The x coordinates of the uncompressed inputs: small ones, and those
\* around the prime and the largest byte.
CoordBytes == (0 .. MaxCoord) \cup {P - 1, P, 255}

\* The values a caller's point has at the start or after one Add: affine
\* points, projective ones and identities (0 : Y : 0) with Y # 1.
ReachedPoints ==
    StartPoints \cup {AddXYZ(s1, s2) : s1 \in StartPoints, s2 \in StartPoints}

\* A point decoded or computed, and a fresh one.
InitCodec ==
    /\ pts \in {<< v, NewPoint >> : v \in ReachedPoints}
    /\ pre = pts
    /\ op = NoCall
    /\ generatorTable = << >>
    /\ calls = 0
    /\ NothingElse

\* p.Bytes()
Bytes(p) ==
    /\ calls < MaxCodecCalls
    /\ op' = Call("Bytes", p, 0, 0, << >>, 0, FALSE, PointBytes(pts[p]))
    /\ pre' = pts
    /\ calls' = calls + 1
    /\ UNCHANGED << pts, generatorTable, besides >>

\* p.BytesCompressed()
BytesCompressed(p) ==
    /\ calls < MaxCodecCalls
    /\ op' = Call("BytesCompressed", p, 0, 0, << >>, 0, FALSE,
                  PointBytesCompressed(pts[p]))
    /\ pre' = pts
    /\ calls' = calls + 1
    /\ UNCHANGED << pts, generatorTable, besides >>

\* p.BytesX()
BytesX(p) ==
    /\ calls < MaxCodecCalls
    /\ LET r == PointBytesX(pts[p])
       IN  op' = Call("BytesX", p, 0, 0, << >>, 0, r.err, r.out)
    /\ pre' = pts
    /\ calls' = calls + 1
    /\ UNCHANGED << pts, generatorTable, besides >>

\* q.SetBytes(in): q and a nil error, or nil and an error.
SetBytes(q, in) ==
    /\ calls < MaxCodecCalls
    /\ LET r == PointSetBytesXYZ(pts[q], in)
       IN  /\ pts' = [pts EXCEPT ![q] = r.p]
           /\ op' = Call("SetBytes", q, 0, 0, in, IF r.err THEN 0 ELSE q,
                         r.err, << >>)
    /\ pre' = pts
    /\ calls' = calls + 1
    /\ UNCHANGED << generatorTable, besides >>

\* The encodings of the caller's points.
HeldEncodings ==
    {PointBytes(pts[i]) : i \in PointIds}
    \cup {PointBytesCompressed(pts[i]) : i \in PointIds}

\* Every input of the length of a compressed encoding.
CompressedInputs == {<< f, xb >> : f \in Prefixes, xb \in Byte}

NextCodec ==
    /\ calls < MaxCodecCalls
    /\ \/ \E p \in PointIds : Bytes(p)
       \/ \E p \in PointIds : BytesCompressed(p)
       \/ \E p \in PointIds : BytesX(p)
       \/ \E q \in PointIds, in \in HeldEncodings \cup CompressedInputs :
             SetBytes(q, in)

SpecCodec == InitCodec /\ [][NextCodec]_vars

\* The decoder's inputs: of every length from none to one byte more than an
\* uncompressed encoding, with every first byte tried.
DecodeInputs ==
    {<< >>} \cup {<< f >> : f \in Prefixes} \cup CompressedInputs
    \cup {<< f, xb, yb >> : f \in Prefixes, xb \in CoordBytes, yb \in Byte}
    \cup {<< f, xb, yb, 0 >> : f \in Prefixes, xb \in CoordBytes,
                              yb \in CoordBytes}

\* A decoded point and a fresh one.
InitDecode ==
    /\ pts \in {<< v, NewPoint >> : v \in StartPoints}
    /\ pre = pts
    /\ op = NoCall
    /\ generatorTable = << >>
    /\ calls = 0
    /\ NothingElse

NextDecode ==
    /\ calls < MaxCodecCalls
    /\ \E q \in PointIds, in \in DecodeInputs : SetBytes(q, in)

SpecDecode == InitDecode /\ [][NextDecode]_vars

\* ------------------------------------------------------------------------
\* Scalar multiplication.
\* ------------------------------------------------------------------------

\* The number of calls of a run of the scalar multiplications.
MaxScalarCalls == 1

\* The largest first byte of the two-byte scalars.
MaxLeadByte == 1

\* The largest second byte of the two-byte scalars.
MaxTailByte == 20

\* The scalars tried: the empty one, every one of one byte (the length
\* ScalarBaseMult asks for), and two-byte ones.
Scalars ==
    {<< >>} \cup {<< k >> : k \in Byte}
    \cup {<< a, c >> : a \in 0 .. MaxLeadByte, c \in 0 .. MaxTailByte}

\* A decoded point and a fresh one; the generator tables are not built.
InitScalar ==
    /\ pts \in {<< v, NewPoint >> : v \in StartPoints}
    /\ pre = pts
    /\ op = NoCall
    /\ generatorTable = << >>
    /\ calls = 0
    /\ NothingElse

\* The state a scalar multiplication leaves: r its heap, tables, returned
\* pointer and error.
ScalarCalled(name, p, q, scalar, r) ==
    /\ pre' = pts
    /\ pts' = r.h
    /\ generatorTable' = r.gt
    /\ op' = Call(name, p, q, 0, scalar, r.ret, r.err, << >>)
    /\ calls' = calls + 1
    /\ UNCHANGED besides

\* The outcome of a ScalarMult, which leaves the generator tables alone.
WithTables(r, gt) == [h |-> r.h, gt |-> gt, ret |-> r.ret, err |-> r.err]

\* p.ScalarMult(q, scalar) on Points
ScalarMult(p, q, scalar) ==
    ScalarCalled("ScalarMult", p, q, scalar,
                 WithTables(PointScalarMult(pts, p, q, scalar), generatorTable))

\* p.ScalarMult(q, scalar) on P256K1Points
P256K1ScalarMult(p, q, scalar) ==
    ScalarCalled("P256K1ScalarMult", p, q, scalar,
                 WithTables(P256K1PointScalarMult(pts, p, q, scalar),
                            generatorTable))

\* p.ScalarBaseMult(scalar)
ScalarBaseMult(p, scalar) ==
    ScalarCalled("ScalarBaseMult", p, 0, scalar,
                 PointScalarBaseMult(pts, generatorTable, p, scalar))

NextScalar ==
    /\ calls < MaxScalarCalls
    /\ \/ \E p \in PointIds, q \in PointIds, scalar \in Scalars :
             ScalarMult(p, q, scalar)
       \/ \E p \in PointIds, q \in PointIds, scalar \in Scalars :
             P256K1ScalarMult(p, q, scalar)
       \/ \E p \in PointIds, scalar \in Scalars : ScalarBaseMult(p, scalar)

SpecScalar == InitScalar /\ [][NextScalar]_vars

\* ------------------------------------------------------------------------
\* The package's variables and a caller: the heap holds the package's g next
\* to the caller's points, which are the only ones the caller has pointers to.
\* ------------------------------------------------------------------------

\* The number of calls of a run next to the package's variables.
MaxPackageCalls == 3

\* The largest scalar byte of these runs.
MaxPackageScalar == 2

\* The pointer to the package's var g.
gPtr == 1

\* The pointers the caller holds: every one but g's.
CallerIds == DOMAIN pts \ {gPtr}

\* The scalars of these runs, of the length ScalarBaseMult asks for.
PackageScalars == {<< k >> : k \in 1 .. MaxPackageScalar}

\* g as the package initialises it, and two points from NewPoint().
InitPackage ==
    /\ pts = << GeneratorValue, NewPoint, NewPoint >>
    /\ pre = pts
    /\ op = NoCall
    /\ generatorTable = << >>
    /\ calls = 0
    /\ NothingElse

\* q = NewGenerator(), q now pointing to the point allocated.
CallNewGenerator(q) ==
    Called("NewGenerator", q, 0, 0, NewGeneratorAt(pts, q, gPtr))

\* q.Set(p)
Set(q, p) == Called("Set", q, p, 0, PointSet(pts, q, p))

\* q.Select(p1, p2, cond)
Select(q, p1, p2, cond) ==
    /\ pre' = pts
    /\ pts' = PointSelect(pts, q, p1, p2, cond).h
    /\ op' = Call("Select", q, p1, p2, << cond >>, q, FALSE, << >>)
    /\ calls' = calls + 1
    /\ UNCHANGED << generatorTable, besides >>

\* Any of the calls, on the caller's pointers; Add, Sub and Double are made
\* while calls < MaxCalls.
NextPackage ==
    /\ calls < MaxPackageCalls
    /\ \/ \E q \in CallerIds : CallNewGenerator(q)
       \/ \E q \in CallerIds, p \in CallerIds : Set(q, p)
       \/ \E q \in CallerIds, p1 \in CallerIds, p2 \in CallerIds :
             Add(q, p1, p2)
       \/ \E q \in CallerIds, p1 \in CallerIds, p2 \in CallerIds :
             Sub(q, p1, p2)
       \/ \E q \in CallerIds, p \in CallerIds : Double(q, p)
       \/ \E q \in CallerIds, p1 \in CallerIds, p2 \in CallerIds,
             cond \in {0, 1} : Select(q, p1, p2, cond)
       \/ \E p \in CallerIds, q \in CallerIds, scalar \in PackageScalars :
             ScalarMult(p, q, scalar)
       \/ \E p \in CallerIds, scalar \in PackageScalars :
             ScalarBaseMult(p, scalar)

SpecPackage == InitPackage /\ [][NextPackage]_vars

\* ------------------------------------------------------------------------
\* Private keys (package ecdh): byte arrays on a heap, a []byte being a
\* pointer to its array; a method returns the heap it leaves, the array of
\* the key it returns (0 for nil) and its error ("" for nil).
\* ------------------------------------------------------------------------

\* s256Order, the scalarOrder of s256.  The source's literal has 0xFF at byte
\* 15 where the order of the group has 0xFE: it spells the order plus 2^128,
\* bit 128 being the lowest of the upper half of the 32 bytes.  The model's
\* literal is the order of its group plus the same bit of its ElementLength
\* bytes.
s256Order == ConstBytes(GroupOrder + 2 ^ (4 * ElementLength))

\* errors.New("crypto/ecdh: invalid private key size")
errInvalidSize == "crypto/ecdh: invalid private key size"

errInvalidPrivateKey == "crypto/ecdh: invalid private key"

\* The error of an io.Reader that has no more to give.
errReader == "EOF"

RECURSIVE isZeroFrom(_, _, _)
\* The loop of isZero from byte i on: acc |= b.
isZeroFrom(a, i, acc) ==
    IF i > Len(a) THEN acc ELSE isZeroFrom(a, i + 1, BitOr(acc, a[i]))

\* isZero: whether a is all zeroes.
isZero(a) == isZeroFrom(a, 1, 0) = 0

\* The length of the buffers of isLess, 72 in the source for slices of up to
\* 32 bytes.
isLessBufferLength == 3

\* The little-endian buffer isLess copies a into: a's last byte first, zeroes
\* after a's first.
isLessBuffer(a) ==
    [i \in 1 .. isLessBufferLength |-> IF i <= Len(a) THEN a[Len(a) - i + 1]
                                       ELSE 0]

RECURSIVE isLessBorrow(_, _, _, _)
\* The subtraction with borrow of isLess from limb i on, a limb being one byte
\* of the buffers here (eight in the source): the last borrow.
isLessBorrow(bufA, bufB, i, borrow) ==
    IF i > Len(bufA) THEN borrow
    ELSE isLessBorrow(bufA, bufB, i + 1,
                      IF bufA[i] - bufB[i] - borrow < 0 THEN 1 ELSE 0)

\* isLess for a and b of one length, not above that of the buffers, as
\* NewPrivateKey calls it: whether the subtraction ends with a borrow.
isLess(a, c) == isLessBorrow(isLessBuffer(a), isLessBuffer(c), 1, 0) = 1

\* SecCurve.NewPrivateKey on the slice of array k: the size error, or
\* errInvalidPrivateKey, or a key whose privateKey is a new array holding a
\* copy, append([]byte{}, key...).
NewPrivateKey(h, k) ==
    IF Len(h[k]) # Len(s256Order)
    THEN [h |-> h, ret |-> 0, err |-> errInvalidSize]
    ELSE IF isZero(h[k]) \/ ~isLess(h[k], s256Order)
    THEN [h |-> h, ret |-> 0, err |-> errInvalidPrivateKey]
    ELSE [h |-> Append(h, h[k]), ret |-> Len(h) + 1, err |-> ""]

\* key[1] ^= 0x42 on a full sample.  The source's keys have 32 bytes and the
\* mask falls on the second; the model's have ElementLength bytes, and the
\* mask falls on the second where there is one, else on the only one.
maskSample(sample) ==
    [sample EXCEPT ![IF Len(sample) > 1 THEN 2 ELSE 1] = BitXor(@, 66)]

RECURSIVE GenerateKeyLoop(_, _, _)
\* The loop of GenerateKey, buf being the array of its key and rand the full
\* samples the reader still gives before it fails: the reader's error, or the
\* outcome of the first NewPrivateKey that is not errInvalidPrivateKey.
GenerateKeyLoop(h, buf, rand) ==
    IF rand = << >> THEN [h |-> h, ret |-> 0, err |-> errReader]
    ELSE LET r == NewPrivateKey([h EXCEPT ![buf] = maskSample(Head(rand))], buf)
         IN  IF r.err = errInvalidPrivateKey
             THEN GenerateKeyLoop(r.h, buf, Tail(rand))
             ELSE r

\* SecCurve.GenerateKey: key := make([]byte, len(c.scalarOrder)), then the loop.
GenerateKey(h, rand) ==
    GenerateKeyLoop(Append(h, [i \in 1 .. Len(s256Order) |-> 0]), Len(h) + 1,
                    rand)

\* The number of calls and writes of a run on keys.
MaxKeyCalls == 2

\* The largest second byte of the caller's two-byte slices.
MaxKeyTail == 3

\* The largest small value a sample stands for once masked.
MaxSampleValue == 1

\* The number of samples a reader gives before it fails.
MaxSamples == 2

\* The caller's slices: the empty one, every one of one byte, some of two.
KeyInputs ==
    {<< >>} \cup {<< v >> : v \in Byte}
    \cup {<< 0, v >> : v \in 0 .. MaxKeyTail}

\* The samples of a reader: those that masked spell small values, the values
\* around the order of the group and around s256Order, and the largest.
KeySamples ==
    {maskSample(<< v >>) :
        v \in (0 .. MaxSampleValue)
              \cup {GroupOrder - 1, GroupOrder, BigEndian(s256Order) - 1,
                    BigEndian(s256Order), 255}}

\* What a reader gives: up to MaxSamples samples.
Readers ==
    UNION {[1 .. n -> KeySamples] : n \in 0 .. MaxSamples}

\* The caller's slice, and no PrivateKey yet.
InitKeys ==
    /\ key \in {<< k >> : k \in KeyInputs}
    /\ priv = 0
    /\ op = NoCall
    /\ calls = 0
    /\ pts = << >>
    /\ pre = << >>
    /\ generatorTable = << >>
    /\ NoElements
    /\ NoGoroutines
    /\ NoRuns

\* The state a call that may return a PrivateKey leaves: r its heap, key and
\* error, in its input.
KeyCalled(name, in, r) ==
    /\ key' = r.h
    /\ priv' = r.ret
    /\ op' = Call(name, 0, 0, 0, in, r.ret, r.err # "", << r.err >>)
    /\ calls' = calls + 1
    /\ UNCHANGED << pts, pre, generatorTable, els, pc, once, seen, run >>

\* NewPrivateKey(key) on the caller's slice
CallNewPrivateKey ==
    /\ priv = 0
    /\ KeyCalled("NewPrivateKey", key[1], NewPrivateKey(key, 1))

\* GenerateKey(rand)
CallGenerateKey(rand) ==
    /\ priv = 0
    /\ KeyCalled("GenerateKey", rand, GenerateKey(key, rand))

\* key[i] = v by the caller, on its own slice
WriteKey(i, v) ==
    /\ i \in DOMAIN key[1]
    /\ key' = [key EXCEPT ![1][i] = v]
    /\ calls' = calls + 1
    /\ UNCHANGED << priv, op, pts, pre, generatorTable, els, pc, once, seen,
                 run >>

NextKeys ==
    /\ calls < MaxKeyCalls
    /\ \/ CallNewPrivateKey
       \/ \E rand \in Readers : CallGenerateKey(rand)
       \/ \E i \in 1 .. 2, v \in {0, 255} : WriteKey(i, v)

SpecKeys == InitKeys /\ [][NextKeys]_vars

\* ------------------------------------------------------------------------
\* The package's operations on points that NewPoint, NewGenerator and
\* SetBytes made.
\* ------------------------------------------------------------------------

\* The inputs of SetBytes: the identity, the compressed encodings with a
\* small x, the uncompressed encodings of the points they decode to, and
\* inputs SetBytes rejects.
CurveInputs ==
    {<< >>, << 0 >>, << 4, 1, 1 >>}
    \cup {<< f, xb >> : f \in {2, 3}, xb \in 0 .. MaxStartX}
    \cup {PointBytes(v) : v \in StartPoints}

NextCurve ==
    \/ NextPackage
    \/ \E q \in CallerIds, in \in CurveInputs : SetBytes(q, in)

SpecCurve == InitPackage /\ [][NextCurve]_vars

\* ------------------------------------------------------------------------
\* ScalarMult and ScalarBaseMult call by call: run[r] is the frame of one
\* execution, with the calls on points it has made so far. The second
\* execution starts when the first has returned.
\* ------------------------------------------------------------------------

\* The entries a wrong table.Select would read: it stops at the n-th.
tableSelectReadsUntilFound(n) == [i \in 1 .. n |-> i - 1]

RECURSIVE tableSelectReadsFrom(_, _)
\* The indices of the entries the loop of table.Select reads from turn i on:
\* table[i-1] at every turn, whatever cond is.
tableSelectReadsFrom(i, n) ==
    IF i >= 16 THEN << >>
    ELSE << i - 1 >> \o tableSelectReadsFrom(i + 1, n)

\* The indices of the entries table.Select(p, n) reads, in order.
tableSelectReads(n) == IF n >= 16 THEN << >> ELSE tableSelectReadsFrom(1, n)

\* The pointers of a run's heap: q, then p; ScalarMult's table is the fifteen
\* objects after p, and t the last object allocated.
qPtr == 1

pPtr == 2

tPtr(f) == Len(f.h)

\* The frame of a call of name ("ScalarMult" or "ScalarBaseMult") on points
\* of the type, before its first step; q keeps the value of the caller's q at
\* the call.
Frame(name, type, q, scalar) ==
    [name |-> name, type |-> type, scalar |-> scalar, at |-> "start",
     i |-> 0, k |-> 0, tableIndex |-> 0, h |-> << q, NewPoint >>,
     calls |-> << >>, err |-> FALSE, q |-> q]

\* The largest number of bytes of a scalar of the runs.
MaxRunLength == 2

\* The bytes of the scalars of the runs: the windows 0, 1 and 15, high and low.
RunBytes == {0, 31, 240}

RunScalars == UNION {[1 .. n -> RunBytes] : n \in 0 .. MaxRunLength}

\* The points q of the runs: the identity, the generator, and its double,
\* whose Z is not 1.
RunPoints == {NewPoint, GeneratorValue, DoubleXYZ(GeneratorValue)}

InitRun ==
    /\ run \in
          {<< Frame(name, type, q, s1), Frame(name, type, q, s2) >> :
              name \in {"ScalarMult", "ScalarBaseMult"},
              type \in {"Point", "P256K1Point"}, q \in RunPoints,
              << s1, s2 >> \in {ss \in RunScalars \X RunScalars :
                                   Len(ss[1]) = Len(ss[2])}}
    /\ pts = << >>
    /\ pre = << >>
    /\ op = NoCall
    /\ generatorTable = << >>
    /\ calls = 0
    /\ NoElements
    /\ NoGoroutines
    /\ NoKeys

\* Run r's turn: it has not returned, and the runs before it have.
Turn(r) ==
    /\ run[r].at # "done"
    /\ \A o \in 1 .. (r - 1) : run[o].at = "done"

\* Run r goes on with the frame f.
Advance(r, f) ==
    /\ run' = [run EXCEPT ![r] = f]
    /\ UNCHANGED << pts, pre, op, generatorTable, calls, els, pc, once, seen,
                    key, priv >>

\* ScalarBaseMult's test of the scalar's length, and tables := generatorTable().
CheckLength(r) ==
    /\ Turn(r)
    /\ run[r].name = "ScalarBaseMult"
    /\ run[r].at = "start"
    /\ Advance(r, IF Len(run[r].scalar) # ElementLength
                  THEN [run[r] EXCEPT !.at = "done", !.err = TRUE]
                  ELSE [run[r] EXCEPT !.at = "reset",
                                      !.h = Append(@, NewPoint)])

\* ScalarMult's table of fifteen NewPoint() and t, and table[0].Set(q).
TableSet(r) ==
    /\ Turn(r)
    /\ run[r].name = "ScalarMult"
    /\ run[r].at = "start"
    /\ Advance(r, [run[r] EXCEPT
                      !.h = PointSet(@ \o [j \in 1 .. (TableSize + 1)
                                             |-> NewPoint],
                                     pPtr + 1, qPtr).h,
                      !.calls = Append(@, << "Set" >>),
                      !.at = "tableDouble", !.i = 1])

\* table[i].Double(table[i/2])
TableDouble(r) ==
    /\ Turn(r)
    /\ run[r].at = "tableDouble"
    /\ Advance(r, [run[r] EXCEPT
                      !.h = DoubleOf(run[r].type, @, pPtr + run[r].i + 1,
                                     pPtr + (run[r].i \div 2) + 1).h,
                      !.calls = Append(@, << "Double" >>),
                      !.at = "tableAdd"])

\* table[i+1].Add(table[i], q), and i += 2
TableAdd(r) ==
    /\ Turn(r)
    /\ run[r].at = "tableAdd"
    /\ Advance(r, [run[r] EXCEPT
                      !.h = PointAdd(@, pPtr + run[r].i + 2,
                                     pPtr + run[r].i + 1, qPtr).h,
                      !.calls = Append(@, << "Add" >>),
                      !.i = @ + 2,
                      !.at = IF run[r].i + 2 < TableSize THEN "tableDouble"
                             ELSE "reset"])

\* p.Set(NewPoint()), and the loop over the scalar's bytes starts: tableIndex
\* is len(tables) - 1 in ScalarBaseMult.
Reset(r) ==
    /\ Turn(r)
    /\ run[r].at = "reset"
    /\ Advance(r, [run[r] EXCEPT
                      !.h = [@ EXCEPT ![pPtr] = NewPoint],
                      !.calls = Append(@, << "Set" >>),
                      !.i = 1,
                      !.tableIndex = IF run[r].name = "ScalarBaseMult"
                                     THEN ElementLength * 2 - 1 ELSE 0,
                      !.at = IF Len(run[r].scalar) = 0 THEN "done"
                             ELSE "high"])

\* One of the four p.Double(p) of ScalarMult's loop: those before the high
\* window (at "lead") or those before the low one (at "mid").
LoopDouble(r) ==
    /\ Turn(r)
    /\ run[r].at \in {"lead", "mid"}
    /\ Advance(r, [run[r] EXCEPT
                      !.h = DoubleOf(run[r].type, @, pPtr, pPtr).h,
                      !.calls = Append(@, << "Double" >>),
                      !.k = @ - 1,
                      !.at = IF run[r].k > 1 THEN @
                             ELSE IF @ = "lead" THEN "high" ELSE "low"])

\* The window of the byte the run is at: byte >> 4, then byte & 0b1111.
windowValue(f) ==
    IF f.at = "high" THEN f.scalar[f.i] \div 16
    ELSE BitAnd(f.scalar[f.i], 15)

\* The table the run selects from: ScalarMult's own, or tables[tableIndex].
tableOf(f) ==
    IF f.name = "ScalarMult" THEN SubSeq(f.h, pPtr + 1, pPtr + TableSize)
    ELSE generatorTableBuild[f.tableIndex + 1]

\* table.Select(t, windowValue); the call is kept with the index of the table
\* and the entries read.
LoopSelect(r) ==
    /\ Turn(r)
    /\ run[r].at \in {"high", "low"}
    /\ Advance(r, [run[r] EXCEPT
                      !.h = [@ EXCEPT ![tPtr(run[r])] =
                                tableSelect(tableOf(run[r]),
                                            windowValue(run[r])).p],
                      !.calls = Append(@, << "Select", run[r].tableIndex,
                                           tableSelectReads(
                                               windowValue(run[r])) >>),
                      !.at = IF @ = "high" THEN "highAdd" ELSE "lowAdd"])

\* Where the run goes after p.Add(p, t): to the doublings or, in
\* ScalarBaseMult, to the next window; after the last byte it returns.
afterAdd(f) ==
    IF f.at = "highAdd"
    THEN IF f.name = "ScalarMult" THEN "mid" ELSE "low"
    ELSE IF f.i + 1 > Len(f.scalar) THEN "done"
    ELSE IF f.name = "ScalarMult" THEN "lead" ELSE "high"

\* A wrong p.Add(p, t) step: tableIndex stays where it is.
LoopAddKeepsIndex(r) ==
    /\ Turn(r)
    /\ run[r].at \in {"highAdd", "lowAdd"}
    /\ Advance(r, [run[r] EXCEPT
                      !.h = PointAdd(@, pPtr, pPtr, tPtr(run[r])).h,
                      !.calls = Append(@, << "Add" >>),
                      !.i = IF run[r].at = "lowAdd" THEN @ + 1 ELSE @,
                      !.k = 4,
                      !.at = afterAdd(run[r])])

\* p.Add(p, t), tableIndex-- in ScalarBaseMult, and the next byte after the
\* low window.
LoopAdd(r) ==
    /\ Turn(r)
    /\ run[r].at \in {"highAdd", "lowAdd"}
    /\ Advance(r, [run[r] EXCEPT
                      !.h = PointAdd(@, pPtr, pPtr, tPtr(run[r])).h,
                      !.calls = Append(@, << "Add" >>),
                      !.tableIndex = IF run[r].name = "ScalarBaseMult"
                                     THEN @ - 1 ELSE @,
                      !.i = IF run[r].at = "lowAdd" THEN @ + 1 ELSE @,
                      !.k = 4,
                      !.at = afterAdd(run[r])])

NextRun ==
    \E r \in DOMAIN run :
        \/ CheckLength(r)
        \/ TableSet(r)
        \/ TableDouble(r)
        \/ TableAdd(r)
        \/ Reset(r)
        \/ LoopDouble(r)
        \/ LoopSelect(r)
        \/ LoopAdd(r)

SpecRun == InitRun /\ [][NextRun]_vars

\* What a run that has returned leaves: the heap of its caller and the error.
RunResult(f) == [h |-> SubSeq(f.h, 1, pPtr), err |-> f.err]

\* What the call of the run leaves when made in one piece.
CallResult(f) ==
    IF f.name = "ScalarMult"
    THEN [h |-> ScalarMultOf(f.type, << f.h[qPtr], NewPoint >>, pPtr, qPtr,
                             f.scalar).h,
          err |-> FALSE]
    ELSE [h |-> PointScalarBaseMult(<< f.h[qPtr], NewPoint >>, << >>, pPtr,
                                    f.scalar).h,
          err |-> PointScalarBaseMult(<< f.h[qPtr], NewPoint >>, << >>, pPtr,
                                      f.scalar).err]

\* The runs end as the calls do.
RunsAreCalls ==
    \A r \in DOMAIN run : run[r].at = "done" => RunResult(run[r]) = CallResult(run[r])

\* ------------------------------------------------------------------------
\* table.Select called on its own: the caller's p is object 1 of the heap and
\* the table the fifteen objects after it.
\* ------------------------------------------------------------------------

\* The largest n of the calls.
MaxSelect == 17

\* The number of calls.
MaxSelectCalls == 2

\* The tables: the one ScalarMult builds for q on P256K1Points.
SelectTables ==
    {TableValues(ScalarMultStart("P256K1Point", << q, NewPoint >>, pPtr, qPtr),
                 pPtr) : q \in RunPoints}

InitSelect ==
    /\ pts \in {<< v >> \o table : v \in StartPoints, table \in SelectTables}
    /\ pre = pts
    /\ op = NoCall
    /\ generatorTable = << >>
    /\ calls = 0
    /\ NothingElse

\* table.Select(p, n), the table being the heap objects p + 1 .. p + 15: the
\* panic leaves the heap as it is.
CallTableSelect(p, n) ==
    /\ calls < MaxSelectCalls
    /\ op.name # "panic"
    /\ LET r == tableSelect(TableValues(pts, p), n)
       IN  /\ pts' = IF r.panic THEN pts ELSE [pts EXCEPT ![p] = r.p]
           /\ op' = Call(IF r.panic THEN "panic" ELSE "table.Select", p, 0, 0,
                         << n >>, 0, FALSE, << >>)
    /\ pre' = pts
    /\ calls' = calls + 1
    /\ UNCHANGED << generatorTable, besides >>

NextSelect == \E n \in 0 .. MaxSelect : CallTableSelect(1, n)

SpecSelect == InitSelect /\ [][NextSelect]_vars

\* ------------------------------------------------------------------------
\* GenerateKey step by step: run[1] is its frame, key[buf] the array of its
\* local key, and the reader gives a sample or fails at every read.
\* ------------------------------------------------------------------------

\* The frame of GenerateKey after key := make([]byte, len(c.scalarOrder)),
\* before the first read; sample is what the last read gave, and retried
\* whether the loop has gone round.
GenerateFrame ==
    [name |-> "GenerateKey", at |-> "read", buf |-> 1, sample |-> << >>,
     retried |-> FALSE, ret |-> 0, err |-> ""]

\* The samples a reader can give.
GenerateSamples == [1 .. Len(s256Order) -> Byte]

InitGenerate ==
    /\ run = << GenerateFrame >>
    /\ key = << [i \in 1 .. Len(s256Order) |-> 0] >>
    /\ priv = 0
    /\ op = NoCall
    /\ calls = 0
    /\ pts = << >>
    /\ pre = << >>
    /\ generatorTable = << >>
    /\ NoElements
    /\ NoGoroutines

\* What the steps of GenerateKey leave alone.
generateFrame == << op, calls, pts, pre, generatorTable, els, pc, once, seen >>

\* io.ReadFull(rand, key) fills key with a sample.
ReadSample(sample) ==
    /\ run[1].at = "read"
    /\ key' = [key EXCEPT ![run[1].buf] = sample]
    /\ run' = [run EXCEPT ![1].at = "mask", ![1].sample = sample]
    /\ UNCHANGED << priv, generateFrame >>

\* io.ReadFull(rand, key) fails: return nil, err.
ReadFails ==
    /\ run[1].at = "read"
    /\ run' = [run EXCEPT ![1].at = "done", ![1].ret = 0, ![1].err = errReader]
    /\ UNCHANGED << key, priv, generateFrame >>

\* key[1] ^= 0x42
MaskKey ==
    /\ run[1].at = "mask"
    /\ key' = [key EXCEPT ![run[1].buf] = maskSample(@)]
    /\ run' = [run EXCEPT ![1].at = "submit"]
    /\ UNCHANGED << priv, generateFrame >>

\* A wrong end of a turn of the loop: continue whatever NewPrivateKey returns.
SubmitKeyAlwaysContinues ==
    /\ run[1].at = "submit"
    /\ run' = [run EXCEPT ![1].at = "read", ![1].retried = TRUE]
    /\ UNCHANGED << key, priv, generateFrame >>

\* k, err := c.NewPrivateKey(key); continue if err == errInvalidPrivateKey,
\* return k, err otherwise.
SubmitKey ==
    /\ run[1].at = "submit"
    /\ LET r == NewPrivateKey(key, run[1].buf)
       IN  IF r.err = errInvalidPrivateKey
           THEN /\ run' = [run EXCEPT ![1].at = "read", ![1].retried = TRUE]
                /\ UNCHANGED << key, priv >>
           ELSE /\ run' = [run EXCEPT ![1].at = "done", ![1].ret = r.ret,
                                      ![1].err = r.err]
                /\ key' = r.h
                /\ priv' = r.ret
    /\ UNCHANGED generateFrame

NextGenerate ==
    \/ \E sample \in GenerateSamples : ReadSample(sample)
    \/ ReadFails
    \/ MaskKey
    \/ SubmitKey

SpecGenerate == InitGenerate /\ [][NextGenerate]_vars

\* GenerateKey goes on while it has not returned: every read returns, with a
\* sample or with an error.
SpecGenerateLive == SpecGenerate /\ WF_vars(NextGenerate)

\* ------------------------------------------------------------------------
\* Public keys and ECDH (package ecdh) on s256, whose points are
\* P256K1Points: newPoint is NewP256K1Point.
\* ------------------------------------------------------------------------

\* The end of privateKeyToPublicKey, publicKey being p.Bytes(): the panic at
\* the encoding of the identity, or the key.
publicKeyOrPanic(publicKey) ==
    IF Len(publicKey) = 1
    THEN [panic |-> "nistec ScalarBaseMult returned the identity",
          publicKey |-> << >>]
    ELSE [panic |-> "", publicKey |-> publicKey]

\* privateKeyToPublicKey after its ScalarBaseMult, r being the outcome.
publicKeyOfProduct(r) ==
    IF r.err
    THEN [panic |-> "nistec ScalarBaseMult failed for a fixed-size input",
          publicKey |-> << >>]
    ELSE publicKeyOrPanic(PointBytes(r.h[1]))

\* SecCurve.privateKeyToPublicKey on the bytes of a private key: the panic it
\* ends with ("" for none) and the bytes of the public key.
privateKeyToPublicKey(privateKey) ==
    publicKeyOfProduct(PointScalarBaseMult(<< NewPoint >>, generatorTableBuild,
                                           1, privateKey))

errInvalidPublicKey == "crypto/ecdh: invalid public key"

\* The error of a SetBytes that failed.
errSetBytes == "secp256k1: SetBytes failed"

\* SecCurve.NewPublicKey on the caller's bytes: an error, or a key holding a
\* copy of them.
NewPublicKey(bytes) ==
    IF Len(bytes) = 0 \/ bytes[1] # 4
    THEN [err |-> errInvalidPublicKey, publicKey |-> << >>]
    ELSE IF PointSetBytesXYZ(NewPoint, bytes).err
    THEN [err |-> errSetBytes, publicKey |-> << >>]
    ELSE [err |-> "", publicKey |-> bytes]

\* ECDH after SetBytes were newPoint the Point of package secp256k1, whose
\* Double writes through its argument.
ECDHOfGenericPoint(r, local) ==
    IF r.err THEN [err |-> TRUE, out |-> << >>]
    ELSE PointBytesX(PointScalarMult(<< r.p >>, 1, 1, local).h[1])

\* ECDH after SetBytes, r being its outcome: p.ScalarMult(p, local), then
\* p.BytesX().
ECDHOfPoint(r, local) ==
    IF r.err THEN [err |-> TRUE, out |-> << >>]
    ELSE PointBytesX(P256K1PointScalarMult(<< r.p >>, 1, 1, local).h[1])

\* SecCurve.ECDH on the bytes of the local private key and of the remote
\* public key: the error flag and the shared bytes.
ECDH(local, remote) == ECDHOfPoint(PointSetBytesXYZ(NewPoint, remote), local)

\* The number of calls of a run of ECDH.
MaxECDHCalls == 3

\* The largest small private key of the first party, and of the second.
MaxOwnKey == 9

MaxPeerKey == 2

\* The largest x coordinate of the public keys handed to NewPublicKey.
MaxRemoteX == 3

\* The one-byte keys NewPrivateKey accepts among small ones and those around
\* the order of the group and around s256Order.
AcceptedKeys(max) ==
    {k \in {<< v >> : v \in (0 .. max)
                          \cup {GroupOrder - 1, GroupOrder, GroupOrder + 1,
                                BigEndian(s256Order) - 1, BigEndian(s256Order)}} :
        NewPrivateKey(<< k >>, 1).err = ""}

\* The bytes handed to NewPublicKey: the encodings of the points with a
\* small x, uncompressed and compressed, of the identity, and of pairs off
\* the curve.
RemoteBytes ==
    {<< 0 >>}
    \cup {<< 4, x, y >> : x \in 0 .. MaxRemoteX, y \in {1, P - 1}}
    \cup UNION {{PointBytes(q), PointBytesCompressed(q)} :
                   q \in {PointSetBytesXYZ(NewPoint, << 2, x >>).p :
                             x \in {v \in 0 .. MaxRemoteX :
                                       ~PointSetBytesXYZ(NewPoint, << 2, v >>).err}}}

\* The arrays of the keys: 1 and 2 the private keys of two parties, 3 and 4
\* their public keys, 5 a public key from NewPublicKey, the last three empty
\* until a call fills them.
InitECDH ==
    /\ key \in {<< a, c, << >>, << >>, << >> >> :
                   a \in AcceptedKeys(MaxOwnKey), c \in AcceptedKeys(MaxPeerKey)}
    /\ priv = 0
    /\ op = NoCall
    /\ calls = 0
    /\ pts = << >>
    /\ pre = << >>
    /\ generatorTable = << >>
    /\ NoElements
    /\ NoGoroutines
    /\ NoRuns

\* What the calls on keys leave alone.
keyFrame == << priv, pts, pre, generatorTable, els, pc, once, seen, run >>

\* k.PublicKey() on private key i, by privateKeyToPublicKey: the key is in
\* array i + 2, or the call has panicked.
CallPublicKey(i) ==
    /\ key[i + 2] = << >>
    /\ LET r == privateKeyToPublicKey(key[i])
       IN  /\ key' = [key EXCEPT ![i + 2] = r.publicKey]
           /\ op' = Call(IF r.panic = "" THEN "PublicKey" ELSE "panic", i, 0, 0,
                         key[i], IF r.panic = "" THEN i + 2 ELSE 0, FALSE,
                         << r.panic >>)
    /\ calls' = calls + 1
    /\ UNCHANGED keyFrame

\* NewPublicKey(bytes): the key is in array 5, or nil and an error.
CallNewPublicKey(bytes) ==
    /\ key[5] = << >>
    /\ LET r == NewPublicKey(bytes)
       IN  /\ key' = [key EXCEPT ![5] = r.publicKey]
           /\ op' = Call("NewPublicKey", 0, 0, 0, bytes,
                         IF r.err = "" THEN 5 ELSE 0, r.err # "", << r.err >>)
    /\ calls' = calls + 1
    /\ UNCHANGED keyFrame

\* ECDH(local, remote) with private key i and the public key of array j.
CallECDH(i, j) ==
    /\ key[j] # << >>
    /\ LET r == ECDH(key[i], key[j])
       IN  op' = Call("ECDH", 0, i, j, << >>, 0, r.err, r.out)
    /\ calls' = calls + 1
    /\ UNCHANGED << key, keyFrame >>

NextECDH ==
    /\ calls < MaxECDHCalls
    /\ op.name # "panic"
    /\ \/ \E i \in 1 .. 2 : CallPublicKey(i)
       \/ \E bytes \in RemoteBytes : CallNewPublicKey(bytes)
       \/ \E i \in 1 .. 2, j \in 3 .. 5 : CallECDH(i, j)

SpecECDH == InitECDH /\ [][NextECDH]_vars

\* ------------------------------------------------------------------------
\* The elliptic.Curve wrapper (package elliptic): S256() is a nistCurve on
\* P256K1Points whose params initS256 sets.
\* ------------------------------------------------------------------------

\* The N of the params of initS256, which is the order of P-256: like that
\* order against secp256k1's, a prime of as many bits as the order of the
\* group and below it.
paramsN == 131

\* The Gx and Gy of the params of initS256, which are those of P-256: the
\* first bytes of the source's literals, 0x6b and 0x4f.
paramsGx == 107

paramsGy == 79

\* s256.params after initS256.
Params ==
    [Name |-> "P-256", BitSize |-> 8 * ElementLength, N |-> paramsN,
     Gx |-> paramsGx, Gy |-> paramsGy]

RECURSIVE BitLen(_)
\* big.Int.BitLen
BitLen(v) == IF v = 0 THEN 0 ELSE 1 + BitLen(v \div 2)

RECURSIVE FillBytes(_, _)
\* big.Int.FillBytes into n bytes, for a v that fits: big-endian, zero-extended.
FillBytes(v, n) ==
    IF n = 0 THEN << >> ELSE Append(FillBytes(v \div 256, n - 1), v % 256)

\* nistCurve.normalizeScalar
normalizeScalar(scalar) ==
    IF Len(scalar) = (BitLen(Params.N) + 7) \div 8 THEN scalar
    ELSE FillBytes(IF Len(scalar) > (BitLen(Params.N) + 7) \div 8
                   THEN BigEndian(scalar) % Params.N
                   ELSE BigEndian(scalar),
                   (BitLen(Params.N) + 7) \div 8)

\* (curve.params.BitSize + 7) / 8
byteLen == (Params.BitSize + 7) \div 8

\* nistCurve.pointFromAffine on coordinates that are not negative: the point
\* and the error flag.
pointFromAffine(x, y) ==
    IF x = 0 /\ y = 0 THEN [err |-> FALSE, p |-> NewPoint]
    ELSE IF BitLen(x) > Params.BitSize \/ BitLen(y) > Params.BitSize
    THEN [err |-> TRUE, p |-> NewPoint]
    ELSE PointSetBytesXYZ(NewPoint,
                          << 4 >> \o FillBytes(x, byteLen)
                                  \o FillBytes(y, byteLen))

\* nistCurve.pointToAffine after p.Bytes(), out being the bytes.
affineOfBytes(out) ==
    IF Len(out) = 1 /\ out[1] = 0 THEN << 0, 0 >>
    ELSE << BigEndian(SubSeq(out, 2, 1 + byteLen)),
            BigEndian(SubSeq(out, 2 + byteLen, Len(out))) >>

\* nistCurve.pointToAffine
pointToAffine(p) == affineOfBytes(PointBytes(p))

\* nistCurve.ScalarMult after pointFromAffine, r being its outcome: the panic
\* ("" for none) and the coordinates.
curveScalarMultOf(r, scalar) ==
    IF r.err
    THEN [panic |-> "crypto/elliptic: ScalarMult was called on an invalid point",
          xy |-> << >>]
    ELSE [panic |-> "",
          xy |-> pointToAffine(
                     P256K1PointScalarMult(<< r.p >>, 1, 1,
                                           normalizeScalar(scalar)).h[1])]

\* nistCurve.ScalarMult
curveScalarMult(Bx, By, scalar) ==
    curveScalarMultOf(pointFromAffine(Bx, By), scalar)

\* nistCurve.ScalarBaseMult after curve.newPoint().ScalarBaseMult(scalar), r
\* being its outcome.
curveScalarBaseMultOf(r) ==
    IF r.err
    THEN [panic |-> "crypto/elliptic: nistec rejected normalized scalar",
          xy |-> << >>]
    ELSE [panic |-> "", xy |-> pointToAffine(r.h[1])]

\* nistCurve.ScalarBaseMult
curveScalarBaseMult(scalar) ==
    curveScalarBaseMultOf(PointScalarBaseMult(<< NewPoint >>,
                                              generatorTableBuild, 1,
                                              normalizeScalar(scalar)))

\* The number of calls on the curve.
MaxCurveCalls == 1

\* The largest first byte of a scalar of two bytes.
MaxHighByte == 1

\* The scalars of the calls: none, one and two bytes.
CurveScalars ==
    {<< >>} \cup {<< v >> : v \in Byte}
    \cup {<< a, v >> : a \in 0 .. MaxHighByte, v \in Byte}

\* What a point is in affine coordinates for the curve: (0, 0) at infinity.
ToXY(A) == IF A = Infinity THEN << 0, 0 >> ELSE A

\* The points of the calls: infinity, the generator, its double, the Gx and
\* Gy of the params, and a pair off the curve.
CurveXY ==
    {<< 0, 0 >>, RefG, RefAdd(RefG, RefG), << Params.Gx, Params.Gy >>,
     << 1, 1 >>}

InitCurveCalls ==
    /\ op = NoCall
    /\ calls = 0
    /\ pts = << >>
    /\ pre = << >>
    /\ generatorTable = << >>
    /\ NothingElse

\* The state a call on the curve leaves.
CurveCalled(name, x, y, scalar, panic, out) ==
    /\ op' = Call(IF panic = "" THEN name ELSE "panic", 0, x, y, scalar, 0,
                  FALSE, out)
    /\ calls' = calls + 1
    /\ UNCHANGED << pts, pre, generatorTable, besides >>

CallNormalizeScalar(scalar) ==
    CurveCalled("normalizeScalar", 0, 0, scalar, "", normalizeScalar(scalar))

CallCurveScalarMult(B, scalar) ==
    LET r == curveScalarMult(B[1], B[2], scalar)
    IN  CurveCalled("Curve.ScalarMult", B[1], B[2], scalar, r.panic, r.xy)

CallCurveScalarBaseMult(scalar) ==
    LET r == curveScalarBaseMult(scalar)
    IN  CurveCalled("Curve.ScalarBaseMult", 0, 0, scalar, r.panic, r.xy)

NextCurveCalls ==
    /\ calls < MaxCurveCalls
    /\ \/ \E scalar \in CurveScalars : CallNormalizeScalar(scalar)
       \/ \E B \in CurveXY, scalar \in CurveScalars :
             CallCurveScalarMult(B, scalar)
       \/ \E scalar \in CurveScalars : CallCurveScalarBaseMult(scalar)

SpecCurveCalls == InitCurveCalls /\ [][NextCurveCalls]_vars

\* ------------------------------------------------------------------------
\* Concurrent first calls of ScalarBaseMult: goroutines, each with a point of
\* its own, going through generatorTableOnce.Do step by step.  Do loads done
\* and, finding 0, locks m, loads done again, runs the function, stores 1 to
\* done and unlocks m.
\* ------------------------------------------------------------------------

\* The number of goroutines.
NumGoroutines == 3

\* The largest scalar byte of the concurrent calls.
MaxOnceScalar == 2

Goroutines == 1 .. NumGoroutines

\* The scalars of the concurrent calls, of the length ScalarBaseMult asks for.
OnceScalars == {<< k >> : k \in 0 .. MaxOnceScalar}

\* Every goroutine is about to call generatorTable(); the tables are nil.
InitOnce ==
    /\ pts = [g \in Goroutines |-> NewPoint]
    /\ pre = pts
    /\ op = NoCall
    /\ generatorTable = << >>
    /\ calls = 0
    /\ pc = [g \in Goroutines |-> "Do"]
    /\ once = OnceZero
    /\ seen = [g \in Goroutines |-> << >>]
    /\ NoElements
    /\ NoKeys
    /\ NoRuns

\* What a step inside Do leaves alone.
doFrame == << pts, pre, op, calls, seen, els, key, priv, run >>

\* new([ElementLength * 2]table): every table without entries.
newTables == [i \in 1 .. (ElementLength * 2) |-> << >>]

\* The tables that have their entries.
Built(gt) == {i \in DOMAIN gt : gt[i] # << >>}

\* All the tables are there and have their entries.
Complete(gt) ==
    /\ Len(gt) = ElementLength * 2
    /\ Built(gt) = DOMAIN gt

\* Do: if o.done.Load() == 0 { o.doSlow(f) }
DoLoad(g) ==
    /\ pc[g] = "Do"
    /\ pc' = [pc EXCEPT ![g] = IF once.done = 0 THEN "Lock" ELSE "return"]
    /\ UNCHANGED << once, generatorTable, doFrame >>

\* doSlow: o.m.Lock()
DoSlowLock(g) ==
    /\ pc[g] = "Lock"
    /\ once.m = 0
    /\ once' = [once EXCEPT !.m = g]
    /\ pc' = [pc EXCEPT ![g] = "doSlow"]
    /\ UNCHANGED << generatorTable, doFrame >>

\* A wrong doSlow: done is stored before the function has run.
DoSlowCheckStoresFirst(g) ==
    /\ pc[g] = "doSlow"
    /\ IF once.done = 0
       THEN /\ generatorTable' = newTables
            /\ once' = [once EXCEPT !.ran = @ + 1, !.done = 1]
            /\ pc' = [pc EXCEPT ![g] = "build"]
       ELSE /\ pc' = [pc EXCEPT ![g] = "Unlock"]
            /\ UNCHANGED << once, generatorTable >>
    /\ UNCHANGED doFrame

\* doSlow: if o.done.Load() == 0 { defer o.done.Store(1); f() }, f starting
\* with generatorTable = new([ElementLength * 2]table).
DoSlowCheck(g) ==
    /\ pc[g] = "doSlow"
    /\ IF once.done = 0
       THEN /\ generatorTable' = newTables
            /\ once' = [once EXCEPT !.ran = @ + 1]
            /\ pc' = [pc EXCEPT ![g] = "build"]
       ELSE /\ pc' = [pc EXCEPT ![g] = "Unlock"]
            /\ UNCHANGED << once, generatorTable >>
    /\ UNCHANGED doFrame

\* One turn of the outer loop of the function: the entries of the next table.
BuildTable(g) ==
    /\ pc[g] = "build"
    /\ LET i == Cardinality(Built(generatorTable)) + 1
       IN  /\ generatorTable' =
                 [generatorTable EXCEPT ![i] = generatorTableBuild[i]]
           /\ pc' = [pc EXCEPT ![g] = IF i = Len(generatorTable) THEN "Store"
                                      ELSE "build"]
    /\ UNCHANGED << once, doFrame >>

\* doSlow's deferred o.done.Store(1)
DoSlowStore(g) ==
    /\ pc[g] = "Store"
    /\ once' = [once EXCEPT !.done = 1]
    /\ pc' = [pc EXCEPT ![g] = "Unlock"]
    /\ UNCHANGED << generatorTable, doFrame >>

\* doSlow's deferred o.m.Unlock()
DoSlowUnlock(g) ==
    /\ pc[g] = "Unlock"
    /\ once' = [once EXCEPT !.m = 0]
    /\ pc' = [pc EXCEPT ![g] = "return"]
    /\ UNCHANGED << generatorTable, doFrame >>

\* return generatorTable
ReturnTables(g) ==
    /\ pc[g] = "return"
    /\ pc' = [pc EXCEPT ![g] = "loop"]
    /\ UNCHANGED << once, generatorTable, doFrame >>

\* The loop of ScalarBaseMult on the tables returned: it reads their entries,
\* and panics on a nil pointer where an entry is missing.
ReadTables(g, scalar) ==
    /\ pc[g] = "loop"
    /\ seen' = [seen EXCEPT ![g] = generatorTable]
    /\ pre' = pts
    /\ calls' = calls + 1
    /\ IF Complete(generatorTable)
       THEN /\ pts' = ScalarBaseMultHeap(generatorTable, pts, g, scalar)
            /\ op' = Call("ScalarBaseMult", g, 0, 0, scalar, g, FALSE, << >>)
            /\ pc' = [pc EXCEPT ![g] = "done"]
       ELSE /\ pts' = [pts EXCEPT ![g] = NewPoint]
            /\ op' = Call("panic", g, 0, 0, scalar, 0, FALSE, << >>)
            /\ pc' = [pc EXCEPT ![g] = "panic"]
    /\ UNCHANGED << once, generatorTable, els, key, priv, run >>

NextOnce ==
    \/ \E g \in Goroutines : DoLoad(g)
    \/ \E g \in Goroutines : DoSlowLock(g)
    \/ \E g \in Goroutines : DoSlowCheck(g)
    \/ \E g \in Goroutines : BuildTable(g)
    \/ \E g \in Goroutines : DoSlowStore(g)
    \/ \E g \in Goroutines : DoSlowUnlock(g)
    \/ \E g \in Goroutines : ReturnTables(g)
    \/ \E g \in Goroutines, scalar \in OnceScalars : ReadTables(g, scalar)

SpecOnce == InitOnce /\ [][NextOnce]_vars

\* ------------------------------------------------------------------------
\* The claims.
\* ------------------------------------------------------------------------

\* The value a fresh point takes from ScalarBaseMult(scalar).
BaseMultValue(scalar) ==
    PointScalarBaseMult(<< NewPoint >>, << >>, 1, scalar).h[1]

\* C1: for every scalar k of the length ScalarBaseMult asks for, ScalarMult of
\* the generator by k leaves a point with the same Bytes() as ScalarBaseMult
\* of k.  Point.ScalarMult breaks it.
C1_ScalarMultOfGenerator ==
    (/\ op.name \in {"ScalarMult", "P256K1ScalarMult"}
     /\ pre[op.arg1] = NewGenerator
     /\ Len(op.in) = ElementLength)
    => PointBytes(pts[op.recv]) = PointBytes(BaseMultValue(op.in))

\* C2: ScalarMult(Q, s) returns a nil error and leaves [k]Q in the receiver,
\* k the big-endian value of s, whatever the length of s.  Point.ScalarMult
\* breaks it.
C2_ScalarMultIsMultiple ==
    op.name \in {"ScalarMult", "P256K1ScalarMult"}
    => /\ ~op.err
       /\ op.ret = op.recv
       /\ Affine(pts[op.recv]) = RefMul(BigEndian(op.in), Affine(pre[op.arg1]))

\* C3: ScalarBaseMult(k) on a scalar of the right length leaves [k]G in the
\* receiver, k not being reduced modulo the order n: k = n gives the identity,
\* encoded << 0 >>, and k = n - 1 gives -G.
C3_ScalarBaseMultIsMultiple ==
    (op.name = "ScalarBaseMult" /\ Len(op.in) = ElementLength)
    => /\ ~op.err
       /\ op.ret = op.recv
       /\ ValidPoint(pts[op.recv])
       /\ Affine(pts[op.recv]) = RefMul(BigEndian(op.in), RefG)
       /\ (BigEndian(op.in) = GroupOrder => PointBytes(pts[op.recv]) = << 0 >>)
       /\ (BigEndian(op.in) = GroupOrder - 1
              => Affine(pts[op.recv]) = RefNeg(RefG))

\* C3's case: ScalarBaseMult of the order has left the identity.
C3_Witness ==
    /\ op.name = "ScalarBaseMult"
    /\ BigEndian(op.in) = GroupOrder
    /\ PointBytes(pts[op.recv]) = << 0 >>
    /\ PointBytes(pre[op.recv]) # << 0 >>

\* C4: Add leaves the group sum of its operands and Sub the sum of the first
\* and the negation (Y negated) of the second, for every pair of valid
\* points: equal ones, inverse ones and identities included; the sum does not
\* depend on the order of the operands.
C4_AddIsGroupSum ==
    /\ op.name = "Add"
       => /\ op.ret = op.recv
          /\ ValidPoint(pts[op.recv])
          /\ Affine(pts[op.recv])
                = RefAdd(Affine(pre[op.arg1]), Affine(pre[op.arg2]))
          /\ Affine(pts[op.recv])
                = Affine(AddXYZ(pre[op.arg2], pre[op.arg1]))
          /\ (Affine(pre[op.arg2]) = Infinity
                 => Affine(pts[op.recv]) = Affine(pre[op.arg1]))
          /\ (Affine(pre[op.arg2]) = RefNeg(Affine(pre[op.arg1]))
                 => Affine(pts[op.recv]) = Infinity)
    /\ op.name = "Sub"
       => /\ op.ret = op.recv
          /\ ValidPoint(pts[op.recv])
          /\ Affine(pts[op.recv])
                = RefAdd(Affine(pre[op.arg1]), RefNeg(Affine(pre[op.arg2])))
          /\ PointBytes(pts[op.recv])
                = PointBytes(AddXYZ(pre[op.arg1],
                                    [pre[op.arg2] EXCEPT
                                        !.Y = ESub(0, pre[op.arg2].Y)]))

\* C4's case: a point that is not the identity has been added to its
\* negation, in projective coordinates with Z # 1.
C4_Witness ==
    /\ op.name = "Add"
    /\ Affine(pre[op.arg1]) # Infinity
    /\ pre[op.arg1].Z # MontOne
    /\ Affine(pre[op.arg2]) = RefNeg(Affine(pre[op.arg1]))
    /\ Affine(pts[op.recv]) = Infinity

\* C5: the point Double(p) returns has the same Bytes() as the point Add(p, p)
\* leaves in a fresh receiver, both from the value p had.
C5_DoubleIsAdd ==
    op.name \in {"Double", "P256K1Double"}
    => PointBytes(pts[op.ret])
          = PointBytes(PointAdd(<< NewPoint, pre[op.arg1] >>, 1, 2, 2).h[1])

\* C5's case: a point that is not the identity, with Z # 1, has been doubled.
C5_Witness ==
    /\ op.name \in {"Double", "P256K1Double"}
    /\ pre[op.arg1].Z # MontOne
    /\ Affine(pre[op.arg1]) # Infinity
    /\ PointBytes(pts[op.ret]) # << 0 >>

\* C6: q.Double(p) leaves p + p in the receiver q and returns q; p keeps its
\* value when it is not q.  Point.Double breaks it.
C6_DoubleSetsReceiver ==
    op.name \in {"Double", "P256K1Double"}
    => /\ op.ret = op.recv
       /\ pts[op.recv] = DoubleXYZ(pre[op.arg1])
       /\ (op.arg1 # op.recv => pts[op.arg1] = pre[op.arg1])

\* The value a fresh receiver takes when the last call is made on it instead,
\* from the operands' values before the call.
FreshReceiverValue ==
    LET h == Append(pre, NewPoint)
        q == Len(pre) + 1
    IN  CASE op.name = "Add" -> PointAdd(h, q, op.arg1, op.arg2).h[q]
          [] op.name = "Sub" -> PointSub(h, q, op.arg1, op.arg2).h[q]
          [] op.name = "Double" -> PointDouble(h, q, op.arg1).h[q]
          [] op.name = "P256K1Double" -> P256K1PointDouble(h, q, op.arg1).h[q]

\* C7: when the receiver of Add, Sub or Double is one of the operands, it ends
\* with the value a distinct fresh receiver takes from the operands' values
\* before the call.  Point.Double breaks it.
C7_OverlappingOperands ==
    (/\ op.name \in {"Add", "Sub", "Double", "P256K1Double"}
     /\ op.recv \in {op.arg1, op.arg2})
    => pts[op.recv] = FreshReceiverValue

\* C8: SetBytes of the Bytes() or of the BytesCompressed() of a valid point
\* succeeds and leaves a point of the same affine value; encoding that point
\* again in the same form gives the same bytes, and encoding uncompressed what
\* was decoded from the compressed form gives Bytes() of the first point.
C8_EncodingRoundTrip ==
    op.name = "SetBytes"
    => \A i \in DOMAIN pre :
          /\ op.in = PointBytes(pre[i])
             => /\ ~op.err
                /\ op.ret = op.recv
                /\ Affine(pts[op.recv]) = Affine(pre[i])
                /\ PointBytes(pts[op.recv]) = op.in
          /\ op.in = PointBytesCompressed(pre[i])
             => /\ ~op.err
                /\ op.ret = op.recv
                /\ Affine(pts[op.recv]) = Affine(pre[i])
                /\ PointBytesCompressed(pts[op.recv]) = op.in
                /\ PointBytes(pts[op.recv]) = PointBytes(pre[i])

\* C8's case: the compressed encoding, with prefix 3, of a point held in
\* projective coordinates with Z # 1 has been decoded.
C8_Witness ==
    /\ op.name = "SetBytes"
    /\ op.in = PointBytesCompressed(pre[1])
    /\ op.in[1] = 3
    /\ pre[1].Z # MontOne
    /\ ~op.err

\* TRUE when x^3 + 7 is a square modulo p.
IsSquareRhs(x) ==
    \E y \in 0 .. (P - 1) : (y * y) % P = (x * x * x + 7) % P

\* C9: BytesCompressed off the identity writes the prefix 2 + lsb(y) and then
\* x; SetBytes of a compressed encoding whose x is below p with x^3 + 7 a
\* square succeeds and stores that x, the root y of x^3 + 7 whose least
\* significant bit is that of the prefix, and Z = 1.
C9_CompressedParity ==
    /\ (op.name = "BytesCompressed" /\ Affine(pre[op.recv]) # Infinity)
       => op.out = << 2 + (Affine(pre[op.recv])[2] % 2),
                      Affine(pre[op.recv])[1] >>
    /\ (/\ op.name = "SetBytes"
        /\ Len(op.in) = 1 + ElementLength
        /\ op.in[1] \in {2, 3}
        /\ op.in[2] < P
        /\ IsSquareRhs(op.in[2]))
       => /\ ~op.err
          /\ pts[op.recv].Z = MontOne
          /\ FieldVal(pts[op.recv].X) = op.in[2]
          /\ FieldVal(pts[op.recv].Y) % 2 = op.in[1] % 2
          /\ (FieldVal(pts[op.recv].Y) * FieldVal(pts[op.recv].Y)) % P
                = (op.in[2] * op.in[2] * op.in[2] + 7) % P

\* C9's case: a compressed encoding has been decoded for which the candidate
\* root has the other parity, so that the other root was selected.
C9_Witness ==
    /\ op.name = "SetBytes"
    /\ Len(op.in) = 1 + ElementLength
    /\ op.in[1] = 3
    /\ ~op.err
    /\ op.in[2] < P
    /\ FieldVal(sqrtCandidate(polynomial(toMontgomeryTable[op.in[2]]))) % 2 = 0
    /\ FieldVal(pts[op.recv].Y) % 2 = 1

\* The inputs SetBytes is to accept: << 0 >>; the prefix 4 and two coordinates
\* below p of a point of the curve; the prefix 2 or 3 and an x below p with
\* x^3 + 7 a square.
ValidEncoding(in) ==
    \/ in = << 0 >>
    \/ /\ Len(in) = 1 + 2 * ElementLength
       /\ in[1] = 4
       /\ in[2] < P /\ in[3] < P
       /\ << in[2], in[3] >> \in CurvePoints
    \/ /\ Len(in) = 1 + ElementLength
       /\ in[1] \in {2, 3}
       /\ in[2] < P
       /\ IsSquareRhs(in[2])

\* C10: SetBytes returns the receiver and a nil error on exactly the inputs
\* of ValidEncoding, and nil and an error on every other input: another
\* length or prefix, the hybrid prefixes 6 and 7, a coordinate not below p, a
\* pair off the curve, a non-square.
C10_SetBytesAccepts ==
    op.name = "SetBytes"
    => /\ ~op.err <=> ValidEncoding(op.in)
       /\ op.err => op.ret = 0
       /\ ~op.err => op.ret = op.recv

\* C10's case: the hybrid encoding of the generator has been refused.
C10_Witness ==
    /\ op.name = "SetBytes"
    /\ op.in = << 6, Gx, Gy >>
    /\ op.err
    /\ op.ret = 0

\* C11: when SetBytes returns an error, for a bad length or prefix, a
\* coordinate not below p, a pair off the curve or a non-square, the X, Y and
\* Z of the receiver, and every other point, are what they were before.
C11_SetBytesErrorKeepsReceiver ==
    (op.name = "SetBytes" /\ op.err) => pts = pre

\* C11's case: a compressed encoding whose x^3 + 7 is not a square has been
\* refused by a receiver that holds a point other than the identity.
C11_Witness ==
    /\ op.name = "SetBytes"
    /\ op.err
    /\ Len(op.in) = 1 + ElementLength
    /\ op.in[1] \in {2, 3}
    /\ op.in[2] < P
    /\ ~IsSquareRhs(op.in[2])
    /\ Affine(pre[op.recv]) # Infinity
    /\ pts[op.recv] = pre[op.recv]

\* C12: Element.SetBytes(v) succeeds exactly when v has ElementLength bytes
\* and spells a value below p; then it returns the receiver, whose Bytes() is
\* v; otherwise it returns nil and an error and no element has changed.
C12_ElementSetBytes ==
    (op.name = "SetBytes" /\ op.recv \in ElementIds) =>
        LET ok == Len(op.in) = ElementLength /\ BigEndian(op.in) < P
        IN  /\ op.err = ~ok
            /\ ok => (op.ret = op.recv /\ ElementBytes(els[op.recv]) = op.in)
            /\ ~ok => (op.ret = 0 /\ els = pre)

\* C12's case: the encoding of p - 1 has been accepted by a receiver that held
\* another value.
C12_Witness ==
    /\ op.name = "SetBytes"
    /\ op.recv \in ElementIds
    /\ BigEndian(op.in) = P - 1
    /\ ~op.err
    /\ els[op.recv] # pre[op.recv]
    /\ ElementBytes(els[op.recv]) = op.in

\* C13: on canonical elements Add and Mul do not depend on the order of their
\* operands, adding c to Sub(a, c) gives a back, Mul by One gives the other
\* operand, and Square(a) is Mul(a, a).
C13_FieldLaws ==
    op.recv \in ElementIds =>
        LET r == els[op.recv]
            a == pre[op.arg1]
            c == pre[op.arg2]
        IN  /\ op.name = "Add" => r = EAdd(c, a)
            /\ op.name = "Mul" => (r = EMul(c, a) /\ (c = MontOne => r = a))
            /\ op.name = "Sub" => EAdd(c, r) = a
            /\ op.name = "Square" => r = EMul(a, a)

\* C13's case: a Sub whose limb-wise subtraction borrowed, so that p was added
\* back, and adding the subtrahend to its result gives the minuend.
C13_Witness ==
    /\ op.name = "Sub"
    /\ op.recv \in ElementIds
    /\ pre[op.arg1] < pre[op.arg2]
    /\ EAdd(pre[op.arg2], els[op.recv]) = pre[op.arg1]

RECURSIVE RefPow(_, _)
\* a^k mod p by squaring: a^k = (a^(k \div 2))^2 * a^(k % 2).
RefPow(a, k) ==
    IF k = 0 THEN 1
    ELSE LET h == RefPow(a, k \div 2)
         IN  (h * h * (IF k % 2 = 1 THEN a ELSE 1)) % P

\* x^(p-2) mod p for every field value x.
RefPowTable == [x \in Canonical |-> RefPow(x, P - 2)]

C15_SelectByCond ==
    (op.name = "Select" /\ op.recv \in ElementIds) =>
        els[op.recv] = IF op.in[1] # 0 THEN pre[op.arg1] ELSE pre[op.arg2]

\* C16: exactly at Z = 0 Bytes and BytesCompressed return the single byte 0
\* and BytesX an error; elsewhere they return 4 and two coordinates, 2 or 3
\* and one coordinate, and the bytes of x = X/Z; no encoder changes a point.
C16_EncodersAtIdentity ==
    (op.name \in {"Bytes", "BytesCompressed", "BytesX"}) =>
        LET p == pre[op.recv]
            atIdentity == p.Z = 0
        IN  /\ pts = pre
            /\ op.name = "Bytes" =>
                  /\ ~op.err
                  /\ atIdentity => op.out = << 0 >>
                  /\ ~atIdentity => /\ Len(op.out) = 1 + 2 * ElementLength
                                    /\ op.out[1] = 4
            /\ op.name = "BytesCompressed" =>
                  /\ ~op.err
                  /\ atIdentity => op.out = << 0 >>
                  /\ ~atIdentity => /\ Len(op.out) = 1 + ElementLength
                                    /\ op.out[1] \in {2, 3}
            /\ op.name = "BytesX" =>
                  /\ op.err = atIdentity
                  /\ ~atIdentity => /\ Len(op.out) = ElementLength
                                    /\ BigEndian(op.out) = Affine(p)[1]

\* C16's case: BytesX has refused an identity (0 : Y : 0) that an Add left,
\* whose Y is not that of NewPoint().
C16_Witness ==
    /\ op.name = "BytesX"
    /\ op.err
    /\ pre[op.recv].Z = 0
    /\ pre[op.recv] # NewPoint
    /\ pts = pre

\* C17: ScalarBaseMult returns nil and an error exactly when the scalar is
\* not ElementLength bytes long, and then no point has changed; otherwise it
\* returns its receiver.
C17_ScalarBaseMultLength ==
    op.name = "ScalarBaseMult" =>
        /\ op.err = (Len(op.in) # ElementLength)
        /\ op.err => (op.ret = 0 /\ pts = pre)
        /\ ~op.err => op.ret = op.recv

\* C17's case: a receiver holding a point other than the identity has been
\* given a scalar one byte too long.
C17_Witness ==
    /\ op.name = "ScalarBaseMult"
    /\ Len(op.in) = ElementLength + 1
    /\ op.err
    /\ op.ret = 0
    /\ Affine(pre[op.recv]) # Infinity
    /\ pts = pre

\* C18: however the goroutines' first calls interleave, the function of
\* generatorTableOnce.Do runs at most once, and a goroutine that is reading, or
\* has read, the tables finds the function run and every entry of every table
\* in place; none panics on a missing entry.
C18_TableBuiltOnce ==
    /\ once.ran <= 1
    /\ \A g \in DOMAIN pc :
          /\ pc[g] \in {"return", "loop", "done"} =>
                (once.ran = 1 /\ generatorTable = generatorTableBuild)
          /\ pc[g] = "done" => seen[g] = generatorTableBuild
          /\ pc[g] # "panic"

\* C18's case: every goroutine has finished its first call, the function
\* having run once.
C18_Witness ==
    /\ pc # << >>
    /\ \A g \in DOMAIN pc : pc[g] = "done"
    /\ once.ran = 1
    /\ once.done = 1
    /\ \A g \in DOMAIN pc : seen[g] = generatorTableBuild

\* C19: after any calls of NewGenerator, Set, Add, Sub, Double, Select,
\* ScalarMult and ScalarBaseMult on the caller's points, the package's g holds
\* the generator and the generator tables are nil or as built, so a point
\* NewGenerator has just returned holds the generator.
C19_PackageConstants ==
    (Len(pts) >= gPtr /\ pc = << >>) =>
        /\ pts[gPtr] = GeneratorValue
        /\ generatorTable \in {<< >>, generatorTableBuild}
        /\ op.name = "NewGenerator" =>
              (pts[op.recv] = GeneratorValue /\ Affine(pts[op.recv]) = RefG)

\* C19's case: a point that NewGenerator returned was changed by a call, and a
\* later NewGenerator has returned the generator again, the tables being built.
C19_Witness ==
    /\ op.name = "NewGenerator"
    /\ calls = MaxPackageCalls
    /\ pre[op.recv] \notin {GeneratorValue, NewPoint}
    /\ pts[op.recv] = GeneratorValue
    /\ pts[gPtr] = GeneratorValue
    /\ generatorTable = generatorTableBuild

\* C20: NewPrivateKey accepts a key exactly when it has the length of the
\* order and spells s with 1 <= s < n, n the order of the group; a wrong length
\* gives the size error, which is not errInvalidPrivateKey, and s = 0 or
\* s >= n gives errInvalidPrivateKey; a key GenerateKey returns spells such an
\* s; the bytes NewPrivateKey stored stay those it was given, whatever the
\* caller writes to its slice afterwards.
C20_PrivateKeyRange ==
    /\ op.name = "NewPrivateKey" =>
          LET sized == Len(op.in) = ElementLength
              ranged == 1 <= BigEndian(op.in) /\ BigEndian(op.in) < GroupOrder
          IN  /\ (~op.err) = (sized /\ ranged)
              /\ ~sized => op.out = << errInvalidSize >>
              /\ (sized /\ ~ranged) => op.out = << errInvalidPrivateKey >>
              /\ errInvalidSize # errInvalidPrivateKey
              /\ priv # 0 => key[priv] = op.in
    /\ (op.name = "GenerateKey" /\ ~op.err) =>
          /\ 1 <= BigEndian(key[priv])
          /\ BigEndian(key[priv]) < GroupOrder

\* C21: for two private keys that have public keys A and B, ECDH of the
\* first with B and of the second with A both succeed, with the same bytes of
\* the length of an element.
C21_ECDHSymmetric ==
    (/\ op.name = "ECDH"
     /\ op.arg2 \in {3, 4}
     /\ op.arg1 = 5 - op.arg2
     /\ key[op.arg1 + 2] # << >>) =>
        /\ ~op.err
        /\ Len(op.out) = ElementLength
        /\ op.out = ECDH(key[op.arg2 - 2], key[op.arg1 + 2]).out
        /\ ~ECDH(key[op.arg2 - 2], key[op.arg1 + 2]).err

\* C21's case: two different keys, neither of them 1, have their public
\* keys, and the ECDH of one with the public key of the other has succeeded.
C21_Witness ==
    /\ op.name = "ECDH"
    /\ op.arg2 \in {3, 4}
    /\ op.arg1 = 5 - op.arg2
    /\ key[3] # << >>
    /\ key[4] # << >>
    /\ key[1] # key[2]
    /\ BigEndian(key[1]) > 1
    /\ BigEndian(key[2]) > 1
    /\ ~op.err
    /\ Len(op.out) = ElementLength

\* The coordinates of p are those of the point at infinity or satisfy the
\* equation of the curve in projective form.
OnCurveOrInfinity(p) ==
    LET x == FieldVal(p.X)
        y == FieldVal(p.Y)
        z == FieldVal(p.Z)
    IN  z = 0 \/ (y * y * z) % P = (x * x * x + 7 * z * z * z) % P

\* The coordinates of p are exactly (0, 1, 0).
IsZeroOneZero(p) ==
    FieldVal(p.X) = 0 /\ FieldVal(p.Y) = 1 /\ FieldVal(p.Z) = 0

C23_ElementsBelowP ==
    (op.name = "Select" => op.in[1] \in {0, 1}) =>
        \A i \in ElementIds : els[i] \in Canonical

\* C23's case: an Add whose sum left the four limbs has put an element
\* below p in its receiver.
C23_Witness ==
    /\ op.name = "Add"
    /\ op.recv \in ElementIds
    /\ pre[op.arg1] + pre[op.arg2] >= MontR
    /\ els[op.recv] \in Canonical
    /\ els[op.recv] = (pre[op.arg1] + pre[op.arg2]) % P

\* The calls a run has made are the first calls of another.
IsPrefix(s, t) == Len(s) <= Len(t) /\ s = SubSeq(t, 1, Len(s))

\* C24: the runs of ScalarMult, and those of ScalarBaseMult, on two scalars
\* of the same length make the same sequence of Double, table-Select and Add
\* calls, and every table-Select reads all fifteen entries of its table.
C24_SameCallsForSameLength ==
    /\ IsPrefix(run[2].calls, run[1].calls)
    /\ run[2].at = "done" => run[2].calls = run[1].calls
    /\ \A r \in DOMAIN run : \A c \in 1 .. Len(run[r].calls) :
          run[r].calls[c][1] = "Select" =>
              run[r].calls[c][3] = [j \in 1 .. TableSize |-> j - 1]

\* C24's case: two runs of ScalarMult on two-byte scalars that differ in
\* every window have returned, having made calls of the three kinds.
C24_Witness ==
    /\ run[1].at = "done"
    /\ run[2].at = "done"
    /\ run[1].name = "ScalarMult"
    /\ run[1].scalar = << 0, 31 >>
    /\ run[2].scalar = << 240, 240 >>
    /\ \A n \in {"Double", "Select", "Add"} :
          \E c \in 1 .. Len(run[2].calls) : run[2].calls[c][1] = n
    /\ run[1].h[pPtr] # run[2].h[pPtr]

\* The number of entries of ScalarMult's table that are filled when the run
\* is at f: none before table[0].Set(q), i before table[i].Double, i + 1
\* before table[i+1].Add, and all of them afterwards.
Filled(f) ==
    IF f.at = "start" THEN 0
    ELSE IF f.at = "tableDouble" THEN f.i
    ELSE IF f.at = "tableAdd" THEN f.i + 1
    ELSE TableSize

\* C25: in ScalarMult(Q, s) the filled entries of the table are T[i] = (i+1)Q
\* as the table is built and ever after, and Q is not modified.
C25_TableOfMultiples ==
    \A r \in DOMAIN run :
        run[r].name = "ScalarMult" =>
            /\ run[r].h[qPtr] = run[r].q
            /\ \A j \in 1 .. Filled(run[r]) :
                  Affine(run[r].h[pPtr + j]) = RefMul(j, Affine(run[r].q))

\* The table of multiples in the runs on the P256K1Point of src/p256k1.go.
TableOfMultiplesP256K1 ==
    \A r \in DOMAIN run :
        (run[r].name = "ScalarMult" /\ run[r].type = "P256K1Point") =>
            /\ run[r].h[qPtr] = run[r].q
            /\ \A j \in 1 .. Filled(run[r]) :
                  Affine(run[r].h[pPtr + j]) = RefMul(j, Affine(run[r].q))

\* Entry j of generator table k is (j+1) * 2^(4k) * G, k and j from 0.
GeneratorTablesAreMultiples ==
    \A k \in 0 .. (ElementLength * 2 - 1) : \A j \in 0 .. (TableSize - 1) :
        Affine(generatorTableBuild[k + 1][j + 1])
            = RefMul((j + 1) * 16 ^ k, RefG)

IsSelect(c) == c[1] = "Select"

\* The table.Select calls a run has made, in order.
Selects(f) == SelectSeq(f.calls, IsSelect)

\* C26: entry j of generator table k is (j+1) * 2^(4k) * G, and ScalarBaseMult
\* looks its i-th nibble up in table 2 * ElementLength - 1 - i: the index goes
\* down from the last table to 0, never leaves that range, every table is
\* used once, and the sum of the entries looked up is scalar * G.
C26_GeneratorTableLookups ==
    /\ GeneratorTablesAreMultiples
    /\ \A r \in DOMAIN run :
          run[r].name = "ScalarBaseMult" =>
              /\ \A c \in 1 .. Len(Selects(run[r])) :
                    /\ Selects(run[r])[c][2] = ElementLength * 2 - c
                    /\ Selects(run[r])[c][2] \in 0 .. (ElementLength * 2 - 1)
              /\ (run[r].at = "done" /\ ~run[r].err) =>
                    /\ Len(Selects(run[r])) = ElementLength * 2
                    /\ Affine(run[r].h[pPtr])
                          = RefMul(BigEndian(run[r].scalar), RefG)

\* C26's case: a ScalarBaseMult on a scalar with two different nibbles, both
\* other than 0, has returned after a Select in each table.
C26_Witness ==
    /\ run[2].name = "ScalarBaseMult"
    /\ run[2].at = "done"
    /\ ~run[2].err
    /\ run[2].scalar = << 31 >>
    /\ Len(Selects(run[2])) = ElementLength * 2
    /\ Affine(run[2].h[pPtr]) = RefMul(31, RefG)

\* C27: table.Select(p, n) with n in 0 .. 15 sets p to (0, 1, 0) when n = 0
\* and to a copy of table[n-1] otherwise, and leaves the table as it was;
\* with n >= 16 it panics and p is as it was.
C27_TableSelect ==
    /\ op.name \in {"table.Select", "panic"} =>
          (op.name = "panic") = (op.in[1] >= 16)
    /\ op.name = "panic" => pts = pre
    /\ op.name = "table.Select" =>
          /\ TableValues(pts, op.recv) = TableValues(pre, op.recv)
          /\ op.in[1] = 0 => IsZeroOneZero(pts[op.recv])
          /\ op.in[1] # 0 => pts[op.recv] = pre[op.recv + op.in[1]]

\* C27's case: a Select of the last entry of a table of fifteen different
\* points, which is neither the identity nor what p held.
C27_Witness ==
    /\ op.name = "table.Select"
    /\ op.in = << TableSize >>
    /\ pts[op.recv] = pre[op.recv + TableSize]
    /\ pts[op.recv] # pre[op.recv]
    /\ Affine(pts[op.recv]) # Infinity
    /\ \A j \in 1 .. TableSize : \A l \in 1 .. TableSize :
          j # l => Affine(pts[op.recv + j]) # Affine(pts[op.recv + l])

\* C28: for the keys NewPrivateKey accepts, privateKeyToPublicKey does not
\* panic, and for the public keys NewPublicKey accepts or PublicKey returns,
\* ECDH does not fail at the point at infinity.
C28_IdentityUnreachable ==
    /\ op.name # "panic"
    /\ op.name = "ECDH" => ~op.err

\* C29: normalizeScalar returns ElementLength bytes that spell the scalar
\* when it is shorter and the scalar modulo the order of the group when it is
\* longer; the curve's ScalarMult and ScalarBaseMult return [s]P for scalars
\* of any length, and ScalarBaseMult of 1 is the (Gx, Gy) of Params().
C29_WrapperScalars ==
    /\ op.name = "normalizeScalar" =>
          /\ Len(op.out) = ElementLength
          /\ BigEndian(op.out) = IF Len(op.in) > ElementLength
                                 THEN BigEndian(op.in) % GroupOrder
                                 ELSE BigEndian(op.in)
    /\ op.name = "Curve.ScalarMult" =>
          op.out = ToXY(RefMul(BigEndian(op.in),
                               IF op.arg1 = 0 /\ op.arg2 = 0 THEN Infinity
                               ELSE << op.arg1, op.arg2 >>))
    /\ op.name = "Curve.ScalarBaseMult" =>
          /\ op.out = ToXY(RefMul(BigEndian(op.in), RefG))
          /\ op.in = << 1 >> => op.out = << Params.Gx, Params.Gy >>

\* The key submitted lies in [1, n).
GoodSample ==
    /\ run[1].at = "submit"
    /\ BigEndian(key[run[1].buf]) \in 1 .. (GroupOrder - 1)

\* What a step of GenerateKey does: the key submitted is the sample with its
\* byte XORed; the loop goes back to the read only when NewPrivateKey
\* returns errInvalidPrivateKey; a failed read returns nil and the reader's
\* error; and a return after a submission returns the key NewPrivateKey made
\* of the sample, which it accepted.
GenerateStep ==
    /\ run'[1].at = "submit" => key'[run[1].buf] = maskSample(run'[1].sample)
    /\ (run[1].at = "submit" /\ run'[1].at = "read") =>
          NewPrivateKey(key, run[1].buf).err = errInvalidPrivateKey
    /\ (run[1].at = "read" /\ run'[1].at = "done") =>
          run'[1].ret = 0 /\ run'[1].err = errReader /\ priv' = 0
    /\ (run[1].at = "submit" /\ run'[1].at = "done") =>
          /\ NewPrivateKey(key, run[1].buf).err = ""
          /\ run'[1].err = ""
          /\ run'[1].ret = priv'
          /\ priv' # 0
          /\ key'[priv'] = maskSample(run[1].sample)
    /\ run[1].at = "done" => UNCHANGED vars

\* C30: every turn of GenerateKey's loop reads a sample, XORs its byte with
\* 0x42 and submits it to NewPrivateKey; the loop retries only on
\* errInvalidPrivateKey, returns the reader's error when a read fails, and
\* returns when a sample is accepted; so a sample whose adjusted value lies
\* in [1, n) leads to the return.
C30_RejectionLoop ==
    /\ [][GenerateStep]_vars
    /\ GoodSample ~> (run[1].at = "done" /\ run[1].err = "")

\* C30's case: GenerateKey has returned a key after a sample it rejected.
C30_Witness ==
    /\ run # << >>
    /\ run[1].name = "GenerateKey"
    /\ run[1].at = "done"
    /\ run[1].retried
    /\ run[1].err = ""
    /\ priv # 0
    /\ BigEndian(key[priv]) \in 1 .. (GroupOrder - 1)
    /\ key[run[1].buf] = key[priv]

=============================================================================
